---- MODULE Spec2Model ----
(***************************************************************************)
(* A model of the Shiv Puran pipeline:                                     *)
(*   - ShivPuranParser.parse_xml            (src/new.py)     : SpecAsm     *)
(*   - translate_accurately                 (src/english.py) : SpecRetry   *)
(*   - translate_from_id, verify_range      (src/english.py) : SpecRun     *)
(*   - ShivPuranParser.upload_to_supabase   (src/new.py)     : SpecUpload  *)
(* Texts of the parser are sequences of one-character strings. Texts of    *)
(* the translator are run-length encoded (a sequence of runs [c, n]: the   *)
(* character c repeated n times, adjacent runs of different characters),   *)
(* so that texts longer than the 4000-character threshold can be written   *)
(* down; lengths, strip, comparison, splitting and joining are computed on *)
(* the runs.                                                               *)
(***************************************************************************)
EXTENDS Integers, Sequences, FiniteSets, TLC

(***************************************************************************)
(* Bounds of the model.                                                    *)
(***************************************************************************)
\* longest raw text of a <p> element
MaxParLen == 3
\* longest raw text of a heading element
MaxHeadLen == 2
\* number of elements root.iter() yields
MaxEvents == 4
\* rows of the chunk table
MaxRows == 2
\* chunks handed to upload_to_supabase
MaxUpload == 201
\* rows of the table in the runs that reach a progress update
MaxWorklist == 20
\* chunks of the document that is uploaded more than once
MaxDocument == 2
\* calls of upload_to_supabase on one table
MaxUploads == 2
\* rows of the table verify_range is called on
MaxVerifyRows == 80
\* runs of equal characters after the first 4000 of a text that is split
MaxSplitRuns == 4

\* largest chunk_size handed to ShivPuranParser.__init__
MaxChunkSize == 4

VARIABLES
    \* ---- ShivPuranParser.parse_xml (src/new.py) ----
    asm_pc,           \* "iter" | "returned" | "raised"
    chunk_size,       \* self.chunk_size
    chunks,           \* the list of chunk dicts built so far
    current_chunk,    \* the buffer
    chunk_id,         \* the 1-based counter
    current_section,  \* the section cursor
    paras,            \* history: the normalized non-empty paragraphs seen, in order
    para_sections,    \* history: the section cursor when each of them was read
    nevents,          \* history: the number of elements iterated
    \* ---- translate_accurately (src/english.py), one activation per process ----
    ta,               \* [Procs -> record], see TAIdle
    client_kinds,     \* the kinds of result translator.translate can return
    faults,           \* what can raise: "client" (translator.translate), "store" (an update)
    \* ---- translate_from_id (src/english.py) and the chunk table ----
    store,            \* the rows of shiv_puran_chunks, in table order
    run,              \* [Procs -> record], see RunIdle
    stopped_store,    \* history: per process, the table when it was interrupted
    \* ---- ShivPuranParser.upload_to_supabase (src/new.py) ----
    upload            \* record, see UploadIdle

asm_vars == <<asm_pc, chunk_size, chunks, current_chunk, chunk_id,
              current_section, paras, para_sections, nevents>>
\* what the parser's steps and the translator's steps leave alone
non_asm_vars == <<ta, client_kinds, faults, store, run, stopped_store, upload>>
non_ta_vars == <<asm_vars, client_kinds, faults, store, run, stopped_store, upload>>
vars == <<asm_vars, ta, client_kinds, faults, store, run, stopped_store, upload>>

(***************************************************************************)
(* Text helpers: Python's str.strip(), re.sub(r'\s+', ' ', .), "\n".join   *)
(* and str.split("\n") on sequences of characters.                         *)
(***************************************************************************)
AsmAlphabet == {"a", " ", "\n", "U+00A0"}

\* The characters str.strip() removes and \s of re matches: those for which
\* str.isspace() is true. A character outside printable ASCII that TLA+ has
\* no escape for is written by its code point, "U+00A0" for the no-break space.
WhiteSpace ==
    { "\t", "\n", "U+000B", "\f", "\r", "U+001C", "U+001D", "U+001E",
      "U+001F", " ", "U+0085", "U+00A0", "U+1680", "U+2000", "U+2001",
      "U+2002", "U+2003", "U+2004", "U+2005", "U+2006", "U+2007", "U+2008",
      "U+2009", "U+200A", "U+2028", "U+2029", "U+202F", "U+205F", "U+3000" }

IsSpace(c) == c \in WhiteSpace

RECURSIVE LStrip(_)
LStrip(s) ==
    IF s = <<>> THEN <<>>
    ELSE IF IsSpace(Head(s)) THEN LStrip(Tail(s)) ELSE s

RECURSIVE RStrip(_)
RStrip(s) ==
    IF s = <<>> THEN <<>>
    ELSE IF IsSpace(s[Len(s)]) THEN RStrip(SubSeq(s, 1, Len(s) - 1)) ELSE s

Strip(s) == RStrip(LStrip(s))

\* re.sub(r'\s+', ' ', s): every maximal run of whitespace becomes one space
RECURSIVE CollapseWs(_)
CollapseWs(s) ==
    IF s = <<>> THEN <<>>
    ELSE IF IsSpace(Head(s)) THEN <<" ">> \o CollapseWs(LStrip(s))
    ELSE <<Head(s)>> \o CollapseWs(Tail(s))

\* "\n".join(list)
RECURSIVE JoinLines(_)
JoinLines(list) ==
    IF list = <<>> THEN <<>>
    ELSE IF Len(list) = 1 THEN list[1]
    ELSE list[1] \o <<"\n">> \o JoinLines(Tail(list))

\* s.split("\n")
RECURSIVE SplitLinesFrom(_, _)
SplitLinesFrom(s, cur) ==
    IF s = <<>> THEN <<cur>>
    ELSE IF Head(s) = "\n" THEN <<cur>> \o SplitLinesFrom(Tail(s), <<>>)
    ELSE SplitLinesFrom(Tail(s), Append(cur, Head(s)))

SplitLines(s) == SplitLinesFrom(s, <<>>)

\* every sequence over alphabet A of length at most n
RECURSIVE SeqsUpTo(_, _)
SeqsUpTo(A, n) ==
    IF n = 0 THEN {<<>>}
    ELSE LET shorter == SeqsUpTo(A, n - 1)
         IN  shorter \cup {Append(s, c) : s \in shorter, c \in A}

RawTexts == SeqsUpTo(AsmAlphabet, MaxParLen)
RawHeadings == SeqsUpTo(AsmAlphabet, MaxHeadLen)

(***************************************************************************)
(* ShivPuranParser.parse_xml                                               *)
(***************************************************************************)
\* lines 58-66: elem.text (None read as ""), stripped, whitespace collapsed
NormalizeParagraph(raw) == Strip(CollapseWs(Strip(raw)))

\* line 62: "if not text or len(text) < 1: continue", on the stripped text
SkipParagraph(raw) == Strip(raw) = <<>> \/ Len(Strip(raw)) < 1

\* line 69: adding this text would exceed the chunk size, and a buffer exists
ExceedsChunkSize_NoSeparator(buf, text, size) ==
    Len(buf) + Len(text) > size /\ buf # <<>>

ExceedsChunkSize_IgnoreText(buf, text, size) ==
    Len(buf) + 1 > size /\ buf # <<>>

ExceedsChunkSize_AtLeast(buf, text, size) ==
    Len(buf) + Len(text) + 1 >= size /\ buf # <<>>

ExceedsChunkSize(buf, text, size) ==
    Len(buf) + Len(text) + 1 > size /\ buf # <<>>

\* line 48: current_section = "Introduction"
DefaultSection == <<"I", "n", "t", "r", "o", "d", "u", "c", "t", "i", "o", "n">>

\* lines 70-75 and 87-92: the dict appended when the buffer is sealed
SealedChunk_DefaultSection(id, section, buf) ==
    [chunk_id |-> id, section |-> DefaultSection,
     content |-> Strip(buf), char_count |-> Len(Strip(buf))]

SealedChunk(id, section, buf) ==
    [chunk_id |-> id, section |-> section,
     content |-> Strip(buf), char_count |-> Len(Strip(buf))]

\* line 76: chunk_id += 1
NextChunkId_Same(id) == id

NextChunkId(id) == id + 1

\* line 77: the paragraph that tripped the size starts the new buffer
BufferAfterSeal_Empty(text) == <<>>

BufferAfterSeal(text) == text

\* lines 80-83: add to the current chunk
AppendToBuffer_NoBreak(buf, text) ==
    IF buf # <<>> THEN buf \o text ELSE text

AppendToBuffer(buf, text) ==
    IF buf # <<>> THEN buf \o <<"\n">> \o text ELSE text

\* lines 30-47: the parser as constructed, before the first element
AsmStart ==
    /\ asm_pc = "iter"
    /\ chunk_size \in 1..MaxChunkSize
    /\ chunks = <<>>
    /\ current_chunk = <<>>
    /\ chunk_id = 1
    /\ current_section = DefaultSection
    /\ paras = <<>>
    /\ para_sections = <<>>
    /\ nevents = 0

\* the texts elem.text can hold, grouped by what lines 53-54 and 58-66 read
\* from them: the section a heading sets, the paragraph text a <p> yields
HeadingTexts == {Strip(raw) : raw \in {r \in RawHeadings : r # <<>> /\ Strip(r) # <<>>}}
EmptyHeadings == {raw \in RawHeadings : ~(raw # <<>> /\ Strip(raw) # <<>>)}
ParagraphTexts == {NormalizeParagraph(raw) : raw \in {r \in RawTexts : ~SkipParagraph(r)}}
EmptyParagraphs == {raw \in RawTexts : SkipParagraph(raw)}

\* lines 52-54: an h1/h2/h3 element
ParseHeading ==
    /\ asm_pc = "iter"
    /\ nevents < MaxEvents
    /\ \/ \E section \in HeadingTexts : current_section' = section
       \/ EmptyHeadings # {} /\ UNCHANGED current_section
    /\ nevents' = nevents + 1
    /\ UNCHANGED <<asm_pc, chunk_size, chunks, current_chunk, chunk_id, paras,
                   para_sections>>
    /\ UNCHANGED non_asm_vars

\* lines 57-83: a p element
ParseParagraph ==
    /\ asm_pc = "iter"
    /\ nevents < MaxEvents
    /\ \/ /\ EmptyParagraphs # {}
          /\ UNCHANGED <<chunks, current_chunk, chunk_id, paras, para_sections>>
       \/ \E text \in ParagraphTexts :
             /\ paras' = Append(paras, text)
             /\ para_sections' = Append(para_sections, current_section)
             /\ IF ExceedsChunkSize(current_chunk, text, chunk_size)
                THEN /\ chunks' = Append(chunks,
                                     SealedChunk(chunk_id, current_section, current_chunk))
                     /\ chunk_id' = NextChunkId(chunk_id)
                     /\ current_chunk' = BufferAfterSeal(text)
                ELSE /\ current_chunk' = AppendToBuffer(current_chunk, text)
                     /\ UNCHANGED <<chunks, chunk_id>>
    /\ nevents' = nevents + 1
    /\ UNCHANGED <<asm_pc, chunk_size, current_section>>
    /\ UNCHANGED non_asm_vars

\* lines 85-97: the end of the iteration: the last chunk, the two prints, the return.
\* Line 95 divides by len(chunks): ZeroDivisionError when no chunk was made.
ParseEnd ==
    /\ asm_pc = "iter"
    /\ LET final == IF Strip(current_chunk) # <<>>
                    THEN Append(chunks, SealedChunk(chunk_id, current_section, current_chunk))
                    ELSE chunks
       IN  /\ chunks' = final
           /\ asm_pc' = IF Len(final) = 0 THEN "raised" ELSE "returned"
    /\ UNCHANGED <<chunk_size, current_chunk, chunk_id, current_section, paras,
                   para_sections, nevents>>
    /\ UNCHANGED non_asm_vars

(***************************************************************************)
(* Run-length encoded texts (src/english.py works on str)                  *)
(***************************************************************************)
Procs == {1, 2}

\* Python's None and a present value
None == <<>>
Some(v) == <<v>>

R(ch, count) == [c |-> ch, n |-> count]

\* a content that is NULL in the table: chunk["content"] is Python's None,
\* which is not the empty string <<>>. It has no character, and no operation
\* on a str yields it
NullContent == <<R("None", 0)>>

\* len(t)
RECURSIVE TLen(_)
TLen(t) == IF t = <<>> THEN 0 ELSE Head(t).n + TLen(Tail(t))

\* a + b, the runs that meet merged
TCat(a, b) ==
    IF a = <<>> THEN b
    ELSE IF b = <<>> THEN a
    ELSE IF a[Len(a)].c = b[1].c
         THEN SubSeq(a, 1, Len(a) - 1)
                \o <<R(b[1].c, a[Len(a)].n + b[1].n)>> \o Tail(b)
         ELSE a \o b

\* a text written character by character
RECURSIVE Lit(_)
Lit(s) == IF s = <<>> THEN <<>> ELSE TCat(<<R(Head(s), 1)>>, Lit(Tail(s)))

RECURSIVE TLStrip(_)
TLStrip(t) ==
    IF t = <<>> THEN <<>>
    ELSE IF IsSpace(Head(t).c) THEN TLStrip(Tail(t)) ELSE t

RECURSIVE TRStrip(_)
TRStrip(t) ==
    IF t = <<>> THEN <<>>
    ELSE IF IsSpace(t[Len(t)].c) THEN TRStrip(SubSeq(t, 1, Len(t) - 1)) ELSE t

\* t.strip()
TStrip(t) == TRStrip(TLStrip(t))

\* ' '.join(list)
RECURSIVE JoinSpace(_)
JoinSpace(list) ==
    IF list = <<>> THEN <<>>
    ELSE IF Len(list) = 1 THEN list[1]
    ELSE TCat(list[1], TCat(<<R(" ", 1)>>, JoinSpace(Tail(list))))

\* line 36: the characters for which str.isdigit() is true: the decimal digits
\* of every script (U+0966..U+096F are the Devanagari ones) and the
\* superscript, subscript and circled digits
Digits ==
    { "0", "1", "2", "3", "4", "5", "6", "7", "8", "9", "U+00B2", "U+00B3",
      "U+00B9", "U+0660", "U+0661", "U+0662", "U+0663", "U+0664", "U+0665",
      "U+0666", "U+0667", "U+0668", "U+0669", "U+06F0", "U+06F1", "U+06F2",
      "U+06F3", "U+06F4", "U+06F5", "U+06F6", "U+06F7", "U+06F8", "U+06F9",
      "U+07C0", "U+07C1", "U+07C2", "U+07C3", "U+07C4", "U+07C5", "U+07C6",
      "U+07C7", "U+07C8", "U+07C9", "U+0966", "U+0967", "U+0968", "U+0969",
      "U+096A", "U+096B", "U+096C", "U+096D", "U+096E", "U+096F", "U+09E6",
      "U+09E7", "U+09E8", "U+09E9", "U+09EA", "U+09EB", "U+09EC", "U+09ED",
      "U+09EE", "U+09EF", "U+0A66", "U+0A67", "U+0A68", "U+0A69", "U+0A6A",
      "U+0A6B", "U+0A6C", "U+0A6D", "U+0A6E", "U+0A6F", "U+0AE6", "U+0AE7",
      "U+0AE8", "U+0AE9", "U+0AEA", "U+0AEB", "U+0AEC", "U+0AED", "U+0AEE",
      "U+0AEF", "U+0B66", "U+0B67", "U+0B68", "U+0B69", "U+0B6A", "U+0B6B",
      "U+0B6C", "U+0B6D", "U+0B6E", "U+0B6F", "U+0BE6", "U+0BE7", "U+0BE8",
      "U+0BE9", "U+0BEA", "U+0BEB", "U+0BEC", "U+0BED", "U+0BEE", "U+0BEF",
      "U+0C66", "U+0C67", "U+0C68", "U+0C69", "U+0C6A", "U+0C6B", "U+0C6C",
      "U+0C6D", "U+0C6E", "U+0C6F", "U+0CE6", "U+0CE7", "U+0CE8", "U+0CE9",
      "U+0CEA", "U+0CEB", "U+0CEC", "U+0CED", "U+0CEE", "U+0CEF", "U+0D66",
      "U+0D67", "U+0D68", "U+0D69", "U+0D6A", "U+0D6B", "U+0D6C", "U+0D6D",
      "U+0D6E", "U+0D6F", "U+0DE6", "U+0DE7", "U+0DE8", "U+0DE9", "U+0DEA",
      "U+0DEB", "U+0DEC", "U+0DED", "U+0DEE", "U+0DEF", "U+0E50", "U+0E51",
      "U+0E52", "U+0E53", "U+0E54", "U+0E55", "U+0E56", "U+0E57", "U+0E58",
      "U+0E59", "U+0ED0", "U+0ED1", "U+0ED2", "U+0ED3", "U+0ED4", "U+0ED5",
      "U+0ED6", "U+0ED7", "U+0ED8", "U+0ED9", "U+0F20", "U+0F21", "U+0F22",
      "U+0F23", "U+0F24", "U+0F25", "U+0F26", "U+0F27", "U+0F28", "U+0F29",
      "U+1040", "U+1041", "U+1042", "U+1043", "U+1044", "U+1045", "U+1046",
      "U+1047", "U+1048", "U+1049", "U+1090", "U+1091", "U+1092", "U+1093",
      "U+1094", "U+1095", "U+1096", "U+1097", "U+1098", "U+1099", "U+1369",
      "U+136A", "U+136B", "U+136C", "U+136D", "U+136E", "U+136F", "U+1370",
      "U+1371", "U+17E0", "U+17E1", "U+17E2", "U+17E3", "U+17E4", "U+17E5",
      "U+17E6", "U+17E7", "U+17E8", "U+17E9", "U+1810", "U+1811", "U+1812",
      "U+1813", "U+1814", "U+1815", "U+1816", "U+1817", "U+1818", "U+1819",
      "U+1946", "U+1947", "U+1948", "U+1949", "U+194A", "U+194B", "U+194C",
      "U+194D", "U+194E", "U+194F", "U+19D0", "U+19D1", "U+19D2", "U+19D3",
      "U+19D4", "U+19D5", "U+19D6", "U+19D7", "U+19D8", "U+19D9", "U+19DA",
      "U+1A80", "U+1A81", "U+1A82", "U+1A83", "U+1A84", "U+1A85", "U+1A86",
      "U+1A87", "U+1A88", "U+1A89", "U+1A90", "U+1A91", "U+1A92", "U+1A93",
      "U+1A94", "U+1A95", "U+1A96", "U+1A97", "U+1A98", "U+1A99", "U+1B50",
      "U+1B51", "U+1B52", "U+1B53", "U+1B54", "U+1B55", "U+1B56", "U+1B57",
      "U+1B58", "U+1B59", "U+1BB0", "U+1BB1", "U+1BB2", "U+1BB3", "U+1BB4",
      "U+1BB5", "U+1BB6", "U+1BB7", "U+1BB8", "U+1BB9", "U+1C40", "U+1C41",
      "U+1C42", "U+1C43", "U+1C44", "U+1C45", "U+1C46", "U+1C47", "U+1C48",
      "U+1C49", "U+1C50", "U+1C51", "U+1C52", "U+1C53", "U+1C54", "U+1C55",
      "U+1C56", "U+1C57", "U+1C58", "U+1C59", "U+2070", "U+2074", "U+2075",
      "U+2076", "U+2077", "U+2078", "U+2079", "U+2080", "U+2081", "U+2082",
      "U+2083", "U+2084", "U+2085", "U+2086", "U+2087", "U+2088", "U+2089",
      "U+2460", "U+2461", "U+2462", "U+2463", "U+2464", "U+2465", "U+2466",
      "U+2467", "U+2468", "U+2474", "U+2475", "U+2476", "U+2477", "U+2478",
      "U+2479", "U+247A", "U+247B", "U+247C", "U+2488", "U+2489", "U+248A",
      "U+248B", "U+248C", "U+248D", "U+248E", "U+248F", "U+2490", "U+24EA",
      "U+24F5", "U+24F6", "U+24F7", "U+24F8", "U+24F9", "U+24FA", "U+24FB",
      "U+24FC", "U+24FD", "U+24FF", "U+2776", "U+2777", "U+2778", "U+2779",
      "U+277A", "U+277B", "U+277C", "U+277D", "U+277E", "U+2780", "U+2781",
      "U+2782", "U+2783", "U+2784", "U+2785", "U+2786", "U+2787", "U+2788",
      "U+278A", "U+278B", "U+278C", "U+278D", "U+278E", "U+278F", "U+2790",
      "U+2791", "U+2792", "U+A620", "U+A621", "U+A622", "U+A623", "U+A624",
      "U+A625", "U+A626", "U+A627", "U+A628", "U+A629", "U+A8D0", "U+A8D1",
      "U+A8D2", "U+A8D3", "U+A8D4", "U+A8D5", "U+A8D6", "U+A8D7", "U+A8D8",
      "U+A8D9", "U+A900", "U+A901", "U+A902", "U+A903", "U+A904", "U+A905",
      "U+A906", "U+A907", "U+A908", "U+A909", "U+A9D0", "U+A9D1", "U+A9D2",
      "U+A9D3", "U+A9D4", "U+A9D5", "U+A9D6", "U+A9D7", "U+A9D8", "U+A9D9",
      "U+A9F0", "U+A9F1", "U+A9F2", "U+A9F3", "U+A9F4", "U+A9F5", "U+A9F6",
      "U+A9F7", "U+A9F8", "U+A9F9", "U+AA50", "U+AA51", "U+AA52", "U+AA53",
      "U+AA54", "U+AA55", "U+AA56", "U+AA57", "U+AA58", "U+AA59", "U+ABF0",
      "U+ABF1", "U+ABF2", "U+ABF3", "U+ABF4", "U+ABF5", "U+ABF6", "U+ABF7",
      "U+ABF8", "U+ABF9", "U+FF10", "U+FF11", "U+FF12", "U+FF13", "U+FF14",
      "U+FF15", "U+FF16", "U+FF17", "U+FF18", "U+FF19", "U+104A0", "U+104A1",
      "U+104A2", "U+104A3", "U+104A4", "U+104A5", "U+104A6", "U+104A7",
      "U+104A8", "U+104A9", "U+10A40", "U+10A41", "U+10A42", "U+10A43",
      "U+10D30", "U+10D31", "U+10D32", "U+10D33", "U+10D34", "U+10D35",
      "U+10D36", "U+10D37", "U+10D38", "U+10D39", "U+10E60", "U+10E61",
      "U+10E62", "U+10E63", "U+10E64", "U+10E65", "U+10E66", "U+10E67",
      "U+10E68", "U+11052", "U+11053", "U+11054", "U+11055", "U+11056",
      "U+11057", "U+11058", "U+11059", "U+1105A", "U+11066", "U+11067",
      "U+11068", "U+11069", "U+1106A", "U+1106B", "U+1106C", "U+1106D",
      "U+1106E", "U+1106F", "U+110F0", "U+110F1", "U+110F2", "U+110F3",
      "U+110F4", "U+110F5", "U+110F6", "U+110F7", "U+110F8", "U+110F9",
      "U+11136", "U+11137", "U+11138", "U+11139", "U+1113A", "U+1113B",
      "U+1113C", "U+1113D", "U+1113E", "U+1113F", "U+111D0", "U+111D1",
      "U+111D2", "U+111D3", "U+111D4", "U+111D5", "U+111D6", "U+111D7",
      "U+111D8", "U+111D9", "U+112F0", "U+112F1", "U+112F2", "U+112F3",
      "U+112F4", "U+112F5", "U+112F6", "U+112F7", "U+112F8", "U+112F9",
      "U+11450", "U+11451", "U+11452", "U+11453", "U+11454", "U+11455",
      "U+11456", "U+11457", "U+11458", "U+11459", "U+114D0", "U+114D1",
      "U+114D2", "U+114D3", "U+114D4", "U+114D5", "U+114D6", "U+114D7",
      "U+114D8", "U+114D9", "U+11650", "U+11651", "U+11652", "U+11653",
      "U+11654", "U+11655", "U+11656", "U+11657", "U+11658", "U+11659",
      "U+116C0", "U+116C1", "U+116C2", "U+116C3", "U+116C4", "U+116C5",
      "U+116C6", "U+116C7", "U+116C8", "U+116C9", "U+11730", "U+11731",
      "U+11732", "U+11733", "U+11734", "U+11735", "U+11736", "U+11737",
      "U+11738", "U+11739", "U+118E0", "U+118E1", "U+118E2", "U+118E3",
      "U+118E4", "U+118E5", "U+118E6", "U+118E7", "U+118E8", "U+118E9",
      "U+11950", "U+11951", "U+11952", "U+11953", "U+11954", "U+11955",
      "U+11956", "U+11957", "U+11958", "U+11959", "U+11C50", "U+11C51",
      "U+11C52", "U+11C53", "U+11C54", "U+11C55", "U+11C56", "U+11C57",
      "U+11C58", "U+11C59", "U+11D50", "U+11D51", "U+11D52", "U+11D53",
      "U+11D54", "U+11D55", "U+11D56", "U+11D57", "U+11D58", "U+11D59",
      "U+11DA0", "U+11DA1", "U+11DA2", "U+11DA3", "U+11DA4", "U+11DA5",
      "U+11DA6", "U+11DA7", "U+11DA8", "U+11DA9", "U+16A60", "U+16A61",
      "U+16A62", "U+16A63", "U+16A64", "U+16A65", "U+16A66", "U+16A67",
      "U+16A68", "U+16A69", "U+16AC0", "U+16AC1", "U+16AC2", "U+16AC3",
      "U+16AC4", "U+16AC5", "U+16AC6", "U+16AC7", "U+16AC8", "U+16AC9",
      "U+16B50", "U+16B51", "U+16B52", "U+16B53", "U+16B54", "U+16B55",
      "U+16B56", "U+16B57", "U+16B58", "U+16B59", "U+1D7CE", "U+1D7CF",
      "U+1D7D0", "U+1D7D1", "U+1D7D2", "U+1D7D3", "U+1D7D4", "U+1D7D5",
      "U+1D7D6", "U+1D7D7", "U+1D7D8", "U+1D7D9", "U+1D7DA", "U+1D7DB",
      "U+1D7DC", "U+1D7DD", "U+1D7DE", "U+1D7DF", "U+1D7E0", "U+1D7E1",
      "U+1D7E2", "U+1D7E3", "U+1D7E4", "U+1D7E5", "U+1D7E6", "U+1D7E7",
      "U+1D7E8", "U+1D7E9", "U+1D7EA", "U+1D7EB", "U+1D7EC", "U+1D7ED",
      "U+1D7EE", "U+1D7EF", "U+1D7F0", "U+1D7F1", "U+1D7F2", "U+1D7F3",
      "U+1D7F4", "U+1D7F5", "U+1D7F6", "U+1D7F7", "U+1D7F8", "U+1D7F9",
      "U+1D7FA", "U+1D7FB", "U+1D7FC", "U+1D7FD", "U+1D7FE", "U+1D7FF",
      "U+1E140", "U+1E141", "U+1E142", "U+1E143", "U+1E144", "U+1E145",
      "U+1E146", "U+1E147", "U+1E148", "U+1E149", "U+1E2F0", "U+1E2F1",
      "U+1E2F2", "U+1E2F3", "U+1E2F4", "U+1E2F5", "U+1E2F6", "U+1E2F7",
      "U+1E2F8", "U+1E2F9", "U+1E950", "U+1E951", "U+1E952", "U+1E953",
      "U+1E954", "U+1E955", "U+1E956", "U+1E957", "U+1E958", "U+1E959",
      "U+1F100", "U+1F101", "U+1F102", "U+1F103", "U+1F104", "U+1F105",
      "U+1F106", "U+1F107", "U+1F108", "U+1F109", "U+1F10A", "U+1FBF0",
      "U+1FBF1", "U+1FBF2", "U+1FBF3", "U+1FBF4", "U+1FBF5", "U+1FBF6",
      "U+1FBF7", "U+1FBF8", "U+1FBF9" }

\* the Devanagari danda and double danda, and the newline (line 56)
SentenceEnders == {"danda", "ddanda", "\n"}

(***************************************************************************)
(* translate_accurately (src/english.py, lines 23-118)                     *)
(***************************************************************************)
\* line 32
MinTextLen == 3
\* line 40
max_attempts == 5
\* line 45: wait_time = 3 + (attempt * 2) + random.uniform(0, 2)
DelayBase == 3
DelayStep == 2
\* line 49
SplitThreshold == 4000
\* line 56
FragmentFloor == 100
\* line 66
MinPartLen == 3
\* line 76: time.sleep(random.uniform(1, 2))
PartPauseLow == 1
PartPauseHigh == 2
\* line 83
MinJoinedLen == 10
\* line 93
MinResultLen == 2
\* line 101
RateLimitBase == 20
RateLimitStep == 10
\* line 106
ConnectionBase == 10
ConnectionStep == 5
\* line 113
OtherCooldown == 5

\* line 36: text.replace(' ', '').replace('.', '').replace(',', '').isdigit()
IsNumericText(text) ==
    LET kept == SelectSeq(text, LAMBDA r : r.c \notin {" ", ".", ","})
    IN  kept # <<>> /\ \A k \in 1..Len(kept) : kept[k].c \in Digits

\* line 33
TooShortMark == Lit(<<"[", "t", "o", "o", " ", "s", "h", "o", "r", "t", "]">>)

\* line 37: f"[numeric: {text}]"
NumericMark(text) ==
    TCat(TCat(Lit(<<"[", "n", "u", "m", "e", "r", "i", "c", ":", " ">>), text),
         Lit(<<"]">>))

\* line 42: for attempt in range(max_attempts)
LoopContinues_OneMore(attempt) == attempt <= max_attempts

LoopContinues(attempt) == attempt < max_attempts

\* random.uniform(low, high) gives a real number of [low, high]; the model
\* draws one of the whole numbers of the interval
UniformDraws(low, high) == low..high

\* line 45: the upper end of random.uniform(0, 2)
DelayJitter == 2

\* a delay that does not grow with the attempt
ProgressiveDelay_Flat(attempt, jitter) == DelayBase + jitter

\* line 45: wait_time = 3 + (attempt * 2) + random.uniform(0, 2)
ProgressiveDelay(attempt, jitter) == DelayBase + (attempt * DelayStep) + jitter

\* lines 51-61: the split at sentence enders. A run of other characters is
\* appended whole; a sentence ender is appended and tested one at a time.
RECURSIVE SplitFrom(_, _, _)
SplitFrom(t, parts, current) ==
    IF t = <<>>
    THEN (IF TStrip(current) # <<>> THEN Append(parts, TStrip(current)) ELSE parts)
    ELSE LET r == Head(t) IN
         IF r.c \notin SentenceEnders
         THEN SplitFrom(Tail(t), parts, TCat(current, <<r>>))
         ELSE LET cur1 == TCat(current, <<R(r.c, 1)>>)
                  rest == IF r.n = 1 THEN Tail(t)
                          ELSE <<R(r.c, r.n - 1)>> \o Tail(t)
              IN  IF TLen(cur1) > FragmentFloor
                  THEN SplitFrom(rest, Append(parts, TStrip(cur1)), <<>>)
                  ELSE SplitFrom(rest, parts, cur1)

SplitSentences(text) == SplitFrom(text, <<>>, <<>>)

\* history of the same scan: the values of current at lines 57 and 61 as they
\* are when they are appended, before strip() is applied to them
RECURSIVE CutsFrom(_, _, _)
CutsFrom(t, cuts, current) ==
    IF t = <<>>
    THEN (IF TStrip(current) # <<>> THEN Append(cuts, current) ELSE cuts)
    ELSE LET r == Head(t) IN
         IF r.c \notin SentenceEnders
         THEN CutsFrom(Tail(t), cuts, TCat(current, <<r>>))
         ELSE LET cur1 == TCat(current, <<R(r.c, 1)>>)
                  rest == IF r.n = 1 THEN Tail(t)
                          ELSE <<R(r.c, r.n - 1)>> \o Tail(t)
              IN  IF TLen(cur1) > FragmentFloor
                  THEN CutsFrom(rest, Append(cuts, cur1), <<>>)
                  ELSE CutsFrom(rest, cuts, cur1)

SplitCuts(text) == CutsFrom(text, <<>>, <<>>)

\* line 71: if trans and trans.strip() and trans != part
PartQualifies(trans, part) ==
    trans # <<>> /\ TStrip(trans) # <<>> /\ trans # part

\* lines 91-93: if result and result.strip(): if result != text and len(result) > 2
DirectQualifies(result, text) ==
    /\ result # <<>> /\ TStrip(result) # <<>>
    /\ result # text /\ TLen(result) > MinResultLen

\* lines 81-83: if translations: result = ' '.join(translations);
\* if result and len(result) > 10
JoinedQualifies(translations) ==
    /\ translations # <<>>
    /\ JoinSpace(translations) # <<>>
    /\ TLen(JoinSpace(translations)) > MinJoinedLen

\* lines 98-105: the handler reads the exception's message, lowercased. A
\* failure of the client is the set of the patterns its message holds.
MessagePatterns == {"too many requests", "rate limit", "connection"}
ClientFailures == SUBSET MessagePatterns

IsRateLimit(e) == "too many requests" \in e \/ "rate limit" \in e
IsConnection(e) == "connection" \in e
FailureClass(e) ==
    IF IsRateLimit(e) THEN "rate_limit"
    ELSE IF IsConnection(e) THEN "connection" ELSE "other"

\* line 101
RateLimitWait(attempt) == RateLimitBase + (attempt * RateLimitStep)
\* line 106
ConnectionWait(attempt) == ConnectionBase + (attempt * ConnectionStep)

\* what translator.translate(x) can return, by kind: nothing, whitespace, the
\* input itself, the input with a trailing space, texts of 2, 3 and 11
\* characters
ClientResult(kind, x) ==
    CASE kind = "empty" -> <<>>
      [] kind = "blank" -> <<R(" ", 2)>>
      [] kind = "echo" -> x
      [] kind = "echo_space" -> TCat(x, <<R(" ", 1)>>)
      [] kind = "two" -> Lit(<<"x", "y">>)
      [] kind = "three" -> Lit(<<"x", "y", "z">>)
      [] kind = "eleven" -> <<R("y", 11)>>

ClientKinds == {"empty", "blank", "echo", "echo_space", "two", "three", "eleven"}

ClientResults(x) == {ClientResult(kind, x) : kind \in client_kinds}

\* translator.translate can raise; update(...).execute() can raise
Faults == {"client", "store"}

ZeroCount == [rate_limit |-> 0, connection |-> 0, other |-> 0]

\* One activation of translate_accurately. The fields after hist are history:
\*   n_attempts iterations of the loop begun
\*   calls      client calls made        n_fail  failed calls, by class
\*   n_cool     cooldowns slept, by class (lines 103, 108, 113)
\*   n_unq      calls whose result did not qualify
\*   att_calls, att_ok  calls and qualifying results of the current attempt
\*   slept      the sleeps of the last step, in order
\*   last_result  the result of the last client call that returned
\* and the fields after trace are history kept only when trace is on:
\*   frag       the fragment calls of the current attempt, in order: the
\*              fragment sent and what came back (None when the call failed)
\*   last_fail  the last client call that raised: whether its message held
\*              both the rate-limit and the connection pattern, its class,
\*              the attempt index, the number of calls made up to it, and
\*              the cooldown slept for it (None when none was)
TAIdle ==
    [pc |-> "idle", text |-> <<>>, attempt |-> 0, best_translation |-> None,
     parts |-> <<>>, i |-> 0, translations |-> <<>>, exc |-> None, ret |-> None,
     hist |-> FALSE, n_attempts |-> 0, calls |-> 0, n_fail |-> ZeroCount, n_cool |-> ZeroCount,
     n_unq |-> 0, att_calls |-> 0, att_ok |-> 0, slept |-> <<>>,
     last_result |-> None, trace |-> FALSE, frag |-> <<>>, last_fail |-> None]

\* translate_accurately(text, chunk_id) is called
TACalled(text, hist) == [TAIdle EXCEPT !.pc = "called", !.text = text, !.hist = hist]

WithoutHistory(r) ==
    [r EXCEPT !.n_attempts = 0, !.calls = 0, !.n_fail = ZeroCount, !.n_cool = ZeroCount,
              !.n_unq = 0, !.att_calls = 0, !.att_ok = 0, !.slept = <<>>,
              !.last_result = None, !.frag = <<>>, !.last_fail = None]

WithoutTrace(r) == [r EXCEPT !.frag = <<>>, !.last_fail = None]

\* translate_accurately(text, chunk_id) is called, all of its history kept
TATraced(text) == [TACalled(text, TRUE) EXCEPT !.trace = TRUE]

TASet(p, r) ==
    /\ ta' = [ta EXCEPT ![p] = IF ~r.hist THEN WithoutHistory(r)
                               ELSE IF ~r.trace THEN WithoutTrace(r) ELSE r]
    /\ UNCHANGED non_ta_vars

Sleep(kind, secs) == [kind |-> kind, secs |-> secs]

\* history of a client call that raised e
Failed(r, e) ==
    [r EXCEPT !.n_fail[FailureClass(e)] = @ + 1,
              !.last_fail = Some([both |-> IsRateLimit(e) /\ IsConnection(e),
                                  class |-> FailureClass(e),
                                  attempt |-> r.attempt, calls |-> r.calls,
                                  cool |-> None])]

\* the cooldown of lines 103, 108 and 113, and its history
Cooldown(r, kind, secs) ==
    [r EXCEPT !.slept = <<Sleep(kind, secs)>>,
              !.n_cool[kind] = @ + 1,
              !.last_fail = IF @ = None THEN None
                            ELSE Some([@[1] EXCEPT !.cool = Some(secs)])]

\* return v (lines 33, 37, 116, 118)
TAReturn(r, v) == [r EXCEPT !.pc = "returned", !.ret = v]

\* line 42 (and 85, 95 by falling through): the next iteration of the loop
NextAttempt(r) == [r EXCEPT !.attempt = @ + 1, !.pc = "attempt"]

\* lines 29-40: strip, the two early returns, the loop's variables
TA_Enter(p) ==
    /\ ta[p].pc = "called"
    /\ LET text == TStrip(ta[p].text)
           r == [ta[p] EXCEPT !.text = text]
       IN  TASet(p, IF TLen(text) < MinTextLen
                    THEN TAReturn(r, Some(TooShortMark))
                    ELSE IF IsNumericText(text)
                    THEN TAReturn(r, Some(NumericMark(text)))
                    ELSE [r EXCEPT !.pc = "attempt", !.attempt = 0,
                                   !.best_translation = None])

\* lines 42-61: the head of the loop: the progressive delay, then the split
\* of a long text; line 118 when the attempts are used up
TA_Attempt(p) ==
    /\ ta[p].pc = "attempt"
    /\ LET r == [ta[p] EXCEPT !.att_calls = 0, !.att_ok = 0, !.frag = <<>>] IN
       IF LoopContinues(r.attempt)
       THEN \E jitter \in UniformDraws(0, DelayJitter) :
               LET d == [r EXCEPT !.n_attempts = @ + 1, !.slept =
                            <<Sleep("delay", ProgressiveDelay(r.attempt, jitter))>>]
               IN  TASet(p, IF TLen(r.text) > SplitThreshold
                            THEN [d EXCEPT !.pc = "part",
                                           !.parts = SplitSentences(r.text),
                                           !.translations = <<>>, !.i = 0]
                            ELSE [d EXCEPT !.pc = "direct"])
       ELSE TASet(p, TAReturn([r EXCEPT !.slept = <<>>], r.best_translation))

\* lines 88-95: the direct translation of a text of at most 4000 characters
TA_Direct(p) ==
    /\ ta[p].pc = "direct"
    /\ LET r == [ta[p] EXCEPT !.calls = @ + 1, !.att_calls = @ + 1, !.slept = <<>>] IN
       \/ \E result \in ClientResults(r.text) :
             LET got == [r EXCEPT !.last_result = Some(result)] IN
             TASet(p, IF DirectQualifies(result, r.text)
                      THEN TAReturn([got EXCEPT !.best_translation = Some(TStrip(result)),
                                                !.att_ok = @ + 1],
                                    Some(TStrip(result)))
                      ELSE NextAttempt([got EXCEPT !.n_unq = @ + 1]))
       \/ /\ "client" \in faults
          /\ \E e \in ClientFailures :
             TASet(p, [Failed(r, e) EXCEPT !.pc = "except", !.exc = Some(e)])

\* lines 97-116: the handler of the loop's try
TA_Except(p) ==
    /\ ta[p].pc = "except"
    /\ LET e == ta[p].exc[1]
           a == ta[p].attempt
           r == [ta[p] EXCEPT !.exc = None]
       IN  TASet(p,
             IF IsRateLimit(e)
             THEN NextAttempt(Cooldown(r, "rate_limit", RateLimitWait(a)))
             ELSE IF IsConnection(e)
             THEN NextAttempt(Cooldown(r, "connection", ConnectionWait(a)))
             ELSE IF a < max_attempts - 1
             THEN NextAttempt(Cooldown(r, "other", OtherCooldown))
             ELSE TAReturn([r EXCEPT !.slept = <<>>], None))

\* lines 65-79: one part of a long text; its failure is caught at line 77
TA_Part(p) ==
    /\ ta[p].pc = "part"
    /\ ta[p].i < Len(ta[p].parts)
    /\ LET part == ta[p].parts[ta[p].i + 1]
           r == [ta[p] EXCEPT !.i = @ + 1, !.slept = <<>>]
           c == [r EXCEPT !.calls = @ + 1, !.att_calls = @ + 1]
       IN  IF TLen(part) < MinPartLen
           THEN TASet(p, r)
           ELSE \/ \E trans \in ClientResults(part) :
                   \E pause \in IF ta[p].i < Len(ta[p].parts) - 1
                                THEN {<<Sleep("pause", secs)>> :
                                        secs \in UniformDraws(PartPauseLow, PartPauseHigh)}
                                ELSE {<<>>} :
                     LET got == [c EXCEPT
                                   !.last_result = Some(trans),
                                   !.frag = Append(@, [part |-> part, out |-> Some(trans)]),
                                   !.slept = pause]
                     IN  TASet(p, IF PartQualifies(trans, part)
                                  THEN [got EXCEPT !.translations = Append(@, TStrip(trans)),
                                                   !.att_ok = @ + 1]
                                  ELSE [got EXCEPT !.n_unq = @ + 1])
                \/ /\ "client" \in faults
                   /\ \E e \in ClientFailures :
                     TASet(p, [Failed(c, e) EXCEPT
                                 !.frag = Append(@, [part |-> part, out |-> None])])

\* lines 81-85: after the last part
TA_Join(p) ==
    /\ ta[p].pc = "part"
    /\ ta[p].i = Len(ta[p].parts)
    /\ LET r == [ta[p] EXCEPT !.slept = <<>>] IN
       TASet(p, IF JoinedQualifies(r.translations)
                THEN TAReturn([r EXCEPT !.best_translation =
                                           Some(JoinSpace(r.translations))],
                              Some(JoinSpace(r.translations)))
                ELSE NextAttempt(r))

\* the parser at rest, for the specifications of the translator
AsmIdle ==
    /\ asm_pc = "idle"
    /\ chunk_size = 1
    /\ chunks = <<>>
    /\ current_chunk = <<>>
    /\ chunk_id = 1
    /\ current_section = <<>>
    /\ paras = <<>>
    /\ para_sections = <<>>
    /\ nevents = 0

NextAsm == ParseHeading \/ ParseParagraph \/ ParseEnd

(***************************************************************************)
(* The chunk table (Supabase, "shiv_puran_chunks") as english.py uses it   *)
(***************************************************************************)
\* "if end_id:" (lines 136, 147, 194): None and 0 give no upper end
EndGiven(end_id) == end_id # None /\ end_id[1] # 0

\* .gte("chunk_id", start_id) and, with an end, .lte("chunk_id", end_id)
InRange_NoEnd(row, start_id, end_id) == row.chunk_id >= start_id

InRange(row, start_id, end_id) ==
    /\ row.chunk_id >= start_id
    /\ EndGiven(end_id) => row.chunk_id <= end_id[1]

\* .is_("English_translation", None)
IsNull_Any(row) == TRUE

\* a translation of at most 3 characters read as missing too
IsNull_OrTooShort(row) ==
    row.translation = None \/ TLen(row.translation[1]) <= MinTextLen

IsNull(row) == row.translation = None

\* .order("chunk_id"): an insertion sort that keeps equal keys in table order
RECURSIVE InsertByChunkId(_, _)
InsertByChunkId(sorted, row) ==
    IF sorted = <<>> THEN <<row>>
    ELSE IF sorted[Len(sorted)].chunk_id <= row.chunk_id THEN Append(sorted, row)
    ELSE Append(InsertByChunkId(SubSeq(sorted, 1, Len(sorted) - 1), row),
                sorted[Len(sorted)])

RECURSIVE OrderByChunkId(_)
OrderByChunkId(rows) ==
    IF rows = <<>> THEN <<>>
    ELSE InsertByChunkId(OrderByChunkId(SubSeq(rows, 1, Len(rows) - 1)),
                         rows[Len(rows)])

\* lines 132-139, 302-309: select("chunk_id", count="exact") of the range
CountInRange(table, start_id, end_id) ==
    Len(SelectSeq(table, LAMBDA row : InRange(row, start_id, end_id)))

\* lines 142-150, 323-331: the rows of the range with a NULL translation
CountNull(table, start_id, end_id) ==
    Len(SelectSeq(table, LAMBDA row : InRange(row, start_id, end_id) /\ IsNull(row)))

\* lines 312-320: the rows of the range with a translation
CountNotNull(table, start_id, end_id) ==
    Len(SelectSeq(table, LAMBDA row : InRange(row, start_id, end_id) /\ ~IsNull(row)))

\* lines 188-197: select("chunk_id, content") of the NULL rows, in chunk_id order
\* a select that stops after the first row, as the sample query of line 165
\* stops after three
SelectNullChunks_FirstOnly(table, start_id, end_id) ==
    LET rows == OrderByChunkId(
                    SelectSeq(table, LAMBDA row : InRange(row, start_id, end_id)
                                                   /\ IsNull(row)))
    IN  [k \in 1..(IF rows = <<>> THEN 0 ELSE 1) |->
            [chunk_id |-> rows[k].chunk_id, content |-> rows[k].content]]

SelectNullChunks(table, start_id, end_id) ==
    LET rows == OrderByChunkId(
                    SelectSeq(table, LAMBDA row : InRange(row, start_id, end_id)
                                                   /\ IsNull(row)))
    IN  [k \in 1..Len(rows) |->
            [chunk_id |-> rows[k].chunk_id, content |-> rows[k].content]]

\* .update({"English_translation": value}).eq("chunk_id", chunk_id)
UpdateTranslation_Lost(table, id, value) == table

UpdateTranslation_EveryRow(table, id, value) ==
    [k \in 1..Len(table) |-> [table[k] EXCEPT !.translation = Some(value)]]

UpdateTranslation(table, id, value) ==
    [k \in 1..Len(table) |->
        IF table[k].chunk_id = id
        THEN [table[k] EXCEPT !.translation = Some(value)]
        ELSE table[k]]

(***************************************************************************)
(* translate_from_id and verify_range (src/english.py, lines 120-344)      *)
(***************************************************************************)
\* line 226
MinContentLen == 3
\* line 268
ProgressEvery == 20

\* line 215
EmptyMark == Lit(<<"[", "e", "m", "p", "t", "y", "]">>)

\* line 211: if not content or not content.strip()
IsEmptyContent_NoStrip(content) == content = NullContent \/ content = <<>>

IsEmptyContent(content) ==
    content = NullContent \/ content = <<>> \/ TStrip(content) = <<>>

\* lines 223-226: len(content.strip()) < 3
IsTooShortContent(content) == TLen(TStrip(content)) < MinContentLen

\* line 244: if translation and translation.strip()
HasTranslation(translation) ==
    translation # None /\ translation[1] # <<>> /\ TStrip(translation[1]) # <<>>

\* lines 257-260: no translation: nothing is written, the row is left as it is
StoreAfterExhausted_Marked(table, id) == UpdateTranslation(table, id, <<>>)

StoreAfterExhausted(table, id) == table

\* One run of translate_from_id. The fields after verify are history:
\*   worklist   the chunk_ids read at lines 188-197 (None before that)
\*   written    the chunk_ids whose update this run issued and saw succeed
\*   exhausted  the chunk_ids for which translate_accurately returned None
\*   tally      the counters printed at lines 284-286
\*   update_errors  the updates of this run that raised
\*   short_join the chunk_ids for which translate_accurately returned None
\*              although fragments of the last attempt were translated
\*   snapshots  the positions i after which lines 268-277 printed a progress update
\*   overwrites the chunk_ids this run updated when they held a translation
RunIdle ==
    [pc |-> "idle", start_id |-> 0, end_id |-> None,
     total_in_range |-> 0, null_count |-> 0, chunks |-> <<>>, total |-> 0, i |-> 0,
     translated |-> 0, skipped |-> 0, failed |-> 0, progress |-> 0,
     verify |-> None, worklist |-> None, written |-> {}, exhausted |-> {},
     tally |-> None, update_errors |-> 0, short_join |-> {}, snapshots |-> {},
     overwrites |-> {}, queries |-> 0, seen_total |-> 0, seen_has |-> 0]

RunSet(p, r) == run' = [run EXCEPT ![p] = r]

\* the chunk the loop of line 202 handles next (i chunks are behind it)
CurrentChunk(p) == run[p].chunks[run[p].i + 1]

\* the chunk being translated while translate_accurately is active
ActiveChunk(p) == run[p].chunks[run[p].i]

\* lines 268-277: the progress update after the i-th chunk
AfterChunk_BreakOnFailure(r) ==
    [r EXCEPT !.pc = IF r.failed > 0 THEN "verify" ELSE "loop",
              !.progress = IF r.i % ProgressEvery = 0 THEN @ + 1 ELSE @,
              !.snapshots = IF r.i % ProgressEvery = 0 THEN @ \cup {r.i} ELSE @]

AfterChunk(r) ==
    [r EXCEPT !.pc = "loop",
              !.progress = IF r.i % ProgressEvery = 0 THEN @ + 1 ELSE @,
              !.snapshots = IF r.i % ProgressEvery = 0 THEN @ \cup {r.i} ELSE @]

\* the row of this chunk_id holds a translation already
HoldsTranslation(table, id) ==
    \E k \in 1..Len(table) : table[k].chunk_id = id /\ table[k].translation # None

\* history of an update that did not raise: the chunk written, and whether a
\* translation was there before
Wrote(r, id) ==
    [r EXCEPT !.written = @ \cup {id},
              !.overwrites = IF HoldsTranslation(store, id) THEN @ \cup {id} ELSE @]

\* translate_from_id(start_id, end_id) is called
RunStart(p, start_id, end_id) ==
    /\ run[p].pc = "idle"
    /\ RunSet(p, [RunIdle EXCEPT !.pc = "count", !.start_id = start_id,
                                 !.end_id = end_id])
    /\ UNCHANGED <<asm_vars, upload, ta, store, stopped_store, client_kinds, faults>>

\* lines 132-139: the first query of the run, the count of the range
RunCountRange(p) ==
    /\ run[p].pc = "count"
    /\ run[p].queries = 0
    /\ LET r == run[p]
       IN  RunSet(p, [r EXCEPT
                        !.total_in_range = CountInRange(store, r.start_id, r.end_id),
                        !.queries = 1])
    /\ UNCHANGED <<asm_vars, upload, ta, store, stopped_store, client_kinds, faults>>

\* lines 141-157: the second query, the count of the NULL rows of the range as
\* the table is by then, and the return when nothing is NULL
RunCountNull(p) ==
    /\ run[p].pc = "count"
    /\ run[p].queries = 1
    /\ LET r == run[p]
           nulls == CountNull(store, r.start_id, r.end_id)
       IN  RunSet(p, [r EXCEPT
                        !.null_count = nulls,
                        !.queries = 0,
                        !.pc = IF nulls = 0 THEN "nothing_to_do" ELSE "prompt"])
    /\ UNCHANGED <<asm_vars, upload, ta, store, stopped_store, client_kinds, faults>>

\* lines 159-185: the samples, the question, the counters
RunPrompt(p) ==
    /\ run[p].pc = "prompt"
    /\ \E choice \in {"y", "n"} :
          RunSet(p, [run[p] EXCEPT
                       !.pc = IF choice = "y" THEN "discover" ELSE "cancelled",
                       !.translated = 0, !.skipped = 0, !.failed = 0])
    /\ UNCHANGED <<asm_vars, upload, ta, store, stopped_store, client_kinds, faults>>

\* lines 187-200: the worklist
RunDiscover(p) ==
    /\ run[p].pc = "discover"
    /\ LET r == run[p]
           found == SelectNullChunks(store, r.start_id, r.end_id)
       IN  RunSet(p, [r EXCEPT
                        !.chunks = found, !.total = Len(found), !.i = 0,
                        !.pc = "loop",
                        !.worklist = Some([k \in 1..Len(found) |-> found[k].chunk_id])])
    /\ UNCHANGED <<asm_vars, upload, ta, store, stopped_store, client_kinds, faults>>

\* lines 213-221 and 228-236: the update of a marker inside "try: ... except: pass"
MarkerUpdate(p, mark) ==
    LET r == [run[p] EXCEPT !.i = @ + 1]
        id == CurrentChunk(p).chunk_id
    IN  \/ /\ store' = UpdateTranslation(store, id, mark)
           /\ RunSet(p, Wrote([r EXCEPT !.skipped = @ + 1], id))
        \/ /\ "store" \in faults
           /\ UNCHANGED store          \* the update raised
           /\ RunSet(p, [r EXCEPT !.update_errors = @ + 1])

\* lines 202-221: a chunk with no content
RunEmpty(p) ==
    /\ run[p].pc = "loop"
    /\ run[p].i < run[p].total
    /\ IsEmptyContent(CurrentChunk(p).content)
    /\ MarkerUpdate(p, EmptyMark)
    /\ UNCHANGED <<asm_vars, upload, ta, stopped_store, client_kinds, faults>>

\* lines 202-236: a chunk of fewer than 3 characters
RunTooShort(p) ==
    /\ run[p].pc = "loop"
    /\ run[p].i < run[p].total
    /\ ~IsEmptyContent(CurrentChunk(p).content)
    /\ IsTooShortContent(CurrentChunk(p).content)
    /\ MarkerUpdate(p, TooShortMark)
    /\ UNCHANGED <<asm_vars, upload, ta, stopped_store, client_kinds, faults>>

\* lines 202-241: any other chunk: translate_accurately(content_clean, chunk_id)
RunTranslate(p) ==
    /\ run[p].pc = "loop"
    /\ run[p].i < run[p].total
    /\ ~IsEmptyContent(CurrentChunk(p).content)
    /\ ~IsTooShortContent(CurrentChunk(p).content)
    /\ RunSet(p, [run[p] EXCEPT !.i = @ + 1, !.pc = "translating"])
    /\ ta' = [ta EXCEPT ![p] = TACalled(TStrip(CurrentChunk(p).content), FALSE)]
    /\ UNCHANGED <<asm_vars, upload, store, stopped_store, client_kinds, faults>>

\* lines 242-277: translate_accurately has returned
RunAfterTranslate(p) ==
    /\ run[p].pc = "translating"
    /\ ta[p].pc = "returned"
    /\ LET r == run[p]
           id == ActiveChunk(p).chunk_id
           translation == ta[p].ret
       IN  IF HasTranslation(translation)
           THEN \/ /\ store' = UpdateTranslation(store, id, translation[1])
                   /\ RunSet(p, AfterChunk(Wrote([r EXCEPT !.translated = @ + 1], id)))
                \/ /\ "store" \in faults
                   /\ UNCHANGED store  \* the update raised: lines 262-265
                   /\ RunSet(p, AfterChunk([r EXCEPT !.failed = @ + 1,
                                                     !.update_errors = @ + 1]))
           ELSE /\ store' = StoreAfterExhausted(store, id)
                /\ RunSet(p, AfterChunk([r EXCEPT
                        !.failed = @ + 1,
                        !.exhausted = IF translation = None THEN @ \cup {id} ELSE @,
                        !.short_join = IF translation = None /\ ta[p].translations # <<>>
                                       THEN @ \cup {id} ELSE @]))
    /\ ta' = [ta EXCEPT ![p] = TAIdle]
    /\ UNCHANGED <<asm_vars, upload, stopped_store, client_kinds, faults>>

\* lines 279-292: the final summary, then verify_range is called
RunSummary(p) ==
    /\ run[p].pc = "loop"
    /\ run[p].i = run[p].total
    /\ RunSet(p, [run[p] EXCEPT
                    !.pc = "verify",
                    !.tally = Some([translated |-> run[p].translated,
                                    skipped |-> run[p].skipped,
                                    failed |-> run[p].failed])])
    /\ UNCHANGED <<asm_vars, upload, ta, store, stopped_store, client_kinds, faults>>

\* a percentage cut to one decimal instead of rounded
PercentTenths_Truncated(has_trans, total) ==
    IF total > 0 THEN (1000 * has_trans) \div total ELSE 0

(***************************************************************************)
(* Python's float (IEEE 754 binary64) for lines 333 and 337. A positive    *)
(* float is [m |-> bits, e |-> n]: the 53 bits of its significand, most    *)
(* significant first and the first of them 1, that first bit worth 2^e.    *)
(* Bits are kept in sequences so that no number leaves TLC's integers.     *)
(***************************************************************************)
MantissaBits == 53

\* the binary digits of n >= 0, most significant first (none for 0)
RECURSIVE NatBits(_)
NatBits(n) == IF n = 0 THEN <<>> ELSE Append(NatBits(n \div 2), n % 2)

RECURSIVE BitsNat(_)
BitsNat(bits) ==
    IF bits = <<>> THEN 0
    ELSE 2 * BitsNat(SubSeq(bits, 1, Len(bits) - 1)) + bits[Len(bits)]

Zeros(count) == [i \in 1..count |-> 0]

\* a significand of more than 53 bits (the first bit 1 and worth 2^e; sticky
\* says that the exact value has more after them) rounded to the nearest
\* float, to the even one of two equally near
RoundNearestEven(bits, e, sticky) ==
    LET all == IF Len(bits) > MantissaBits THEN bits
               ELSE bits \o Zeros(MantissaBits + 1 - Len(bits))
        kept == SubSeq(all, 1, MantissaBits)
        guard == all[MantissaBits + 1]
        rest == sticky \/ \E i \in (MantissaBits + 2)..Len(all) : all[i] = 1
        up == guard = 1 /\ (rest \/ kept[MantissaBits] = 1)
        zeroes == {i \in 1..MantissaBits : kept[i] = 0}
    IN  IF ~up THEN [m |-> kept, e |-> e]
        ELSE IF zeroes = {} THEN [m |-> <<1>> \o Zeros(MantissaBits - 1), e |-> e + 1]
        ELSE LET last == CHOOSE i \in zeroes : \A j \in zeroes : j <= i
             IN  [m |-> [i \in 1..MantissaBits |->
                            IF i < last THEN kept[i] ELSE IF i = last THEN 1 ELSE 0],
                  e |-> e]

\* digits are worked on eight at a time
LimbBits == 8
LimbBase == 256

\* the eight binary digits of a limb
LimbDigits(n) == [i \in 1..LimbBits |-> (n \div 2^(LimbBits - i)) % 2]

FromLimbs(limbs) ==
    [i \in 1..(LimbBits * Len(limbs)) |->
        LimbDigits(limbs[((i - 1) \div LimbBits) + 1])[((i - 1) % LimbBits) + 1]]

ToLimbs(bits) ==
    LET all == Zeros((LimbBits - (Len(bits) % LimbBits)) % LimbBits) \o bits
    IN  [j \in 1..(Len(all) \div LimbBits) |->
            BitsNat(SubSeq(all, LimbBits * (j - 1) + 1, LimbBits * j))]

\* the digits from the first 1 on
StripZeros(bits) ==
    LET ones == {i \in 1..Len(bits) : bits[i] = 1}
    IN  IF ones = {} THEN <<>>
        ELSE SubSeq(bits, CHOOSE i \in ones : \A j \in ones : i <= j, Len(bits))

\* the limbs of the fraction r / d, by long division (r < d < 2^23)
RECURSIVE QuotientLimbs(_, _, _)
QuotientLimbs(r, d, count) ==
    IF count = 0 THEN <<>>
    ELSE <<(r * LimbBase) \div d>> \o QuotientLimbs((r * LimbBase) % d, d, count - 1)

\* what the long division leaves after count limbs
RECURSIVE QuotientRest(_, _, _)
QuotientRest(r, d, count) ==
    IF count = 0 THEN r ELSE QuotientRest((r * LimbBase) % d, d, count - 1)

\* limbs of the fraction worked out: 80 digits, which hold 54 digits from the
\* first 1 on for every quotient of integers below 2^23
FractionLimbs == 10

\* a / b for two integers a > 0 and b > 0 (has_trans / total)
FloatDiv(a, b) ==
    LET whole == NatBits(a \div b)
        all == whole \o FromLimbs(QuotientLimbs(a % b, b, FractionLimbs))
        sig == StripZeros(all)
    IN  RoundNearestEven(sig, Len(whole) - 1 - (Len(all) - Len(sig)),
                         QuotientRest(a % b, b, FractionLimbs) # 0)

\* the limbs of limbs * k + carry for a small integer k
RECURSIVE TimesLimbs(_, _, _)
TimesLimbs(limbs, k, carry) ==
    IF limbs = <<>> THEN (IF carry = 0 THEN <<>> ELSE <<carry>>)
    ELSE LET v == limbs[Len(limbs)] * k + carry
         IN  Append(TimesLimbs(SubSeq(limbs, 1, Len(limbs) - 1), k, v \div LimbBase),
                    v % LimbBase)

\* the digits of bits * k for an integer 0 < k < 256
TimesBits(bits, k) == StripZeros(FromLimbs(TimesLimbs(ToLimbs(bits), k, 0)))

\* x * k for a float x and a small integer k > 0 (... * 100)
FloatTimes(x, k) ==
    LET product == TimesBits(x.m, k)
    IN  RoundNearestEven(product, x.e + Len(product) - MantissaBits, FALSE)

\* f"{x:.1f}" for a float x, in tenths: the exact value of x times ten,
\* rounded to the nearest integer, to the even one of two equally near
FormatTenths(x) ==
    LET product == TimesBits(x.m, 10)
        places == MantissaBits - 1 - x.e
        digits == IF places >= Len(product)
                  THEN Zeros(places + 1 - Len(product)) \o product
                  ELSE product
        cut == IF places > 0 THEN Len(digits) - places ELSE Len(digits)
        whole == BitsNat(SubSeq(digits, 1, cut) \o Zeros(IF places < 0 THEN -places ELSE 0))
        frac == SubSeq(digits, cut + 1, Len(digits))
        up == /\ frac # <<>>
              /\ frac[1] = 1
              /\ (whole % 2 = 1 \/ \E i \in 2..Len(frac) : frac[i] = 1)
    IN  IF up THEN whole + 1 ELSE whole

\* lines 333 and 337: percentage = (has_trans / total) * 100 if total > 0 else 0,
\* as f"{percentage:.1f}" prints it, in tenths of a percent
PercentTenths(has_trans, total) ==
    IF total > 0 /\ has_trans > 0
    THEN FormatTenths(FloatTimes(FloatDiv(has_trans, total), 100))
    ELSE 0

\* verify_range, lines 294-344, asks the table three times.
\* lines 301-309: the rows of the range
RunVerifyTotal(p) ==
    /\ run[p].pc = "verify"
    /\ run[p].queries = 0
    /\ LET r == run[p]
       IN  RunSet(p, [r EXCEPT
                        !.seen_total = CountInRange(store, r.start_id, r.end_id),
                        !.queries = 1])
    /\ UNCHANGED <<asm_vars, upload, ta, store, stopped_store, client_kinds, faults>>

\* lines 311-320: the rows of the range that hold a translation
RunVerifyHas(p) ==
    /\ run[p].pc = "verify"
    /\ run[p].queries = 1
    /\ LET r == run[p]
       IN  RunSet(p, [r EXCEPT
                        !.seen_has = CountNotNull(store, r.start_id, r.end_id),
                        !.queries = 2])
    /\ UNCHANGED <<asm_vars, upload, ta, store, stopped_store, client_kinds, faults>>

\* lines 322-344: the rows of the range that are still NULL, and the report
RunVerifyNull(p) ==
    /\ run[p].pc = "verify"
    /\ run[p].queries = 2
    /\ LET r == run[p]
           total == r.seen_total
           has_trans == r.seen_has
           still_null == CountNull(store, r.start_id, r.end_id)
       IN  RunSet(p, [r EXCEPT
                        !.pc = "done",
                        !.queries = 0, !.seen_total = 0, !.seen_has = 0,
                        !.verify = Some([total |-> total, has_trans |-> has_trans,
                                         still_null |-> still_null,
                                         percentage |-> PercentTenths(has_trans, total),
                                         success |-> ~(still_null > 0)])])
    /\ UNCHANGED <<asm_vars, upload, ta, store, stopped_store, client_kinds, faults>>

RunActive(p) ==
    run[p].pc \in {"count", "prompt", "discover", "loop", "translating", "verify"}

\* The run ends where it stands: KeyboardInterrupt (lines 364-366), a kill,
\* or an exception of a query that nothing catches. Nothing is rolled back;
\* the process and its variables are gone. The history fields stay.
Interrupt(p) ==
    /\ RunActive(p)
    /\ RunSet(p, [RunIdle EXCEPT !.pc = "stopped",
                                 !.start_id = run[p].start_id,
                                 !.end_id = run[p].end_id,
                                 !.worklist = run[p].worklist,
                                 !.written = run[p].written,
                                 !.exhausted = run[p].exhausted])
    /\ ta' = [ta EXCEPT ![p] = TAIdle]
    /\ stopped_store' = [stopped_store EXCEPT ![p] = Some(store)]
    /\ UNCHANGED <<asm_vars, upload, store, client_kinds, faults>>

RunEnded(p) == run[p].pc \in {"nothing_to_do", "cancelled", "done", "stopped"}

(***************************************************************************)
(* ShivPuranParser.upload_to_supabase (src/new.py, lines 99-144)           *)
(***************************************************************************)
\* line 119
batch_size == 100

\* The fields after i are history:
\*   batches       the batches whose insert returned, in order
\*   failed_batch  batch_num of the insert that raised
\*   verified      the row count read at line 138
\*   earlier_calls the calls of the method that ended before this one
UploadIdle ==
    [pc |-> "idle", chunks |-> <<>>, i |-> 0, batches |-> <<>>,
     failed_batch |-> None, verified |-> None, earlier_calls |-> 0]

\* line 120: total_batches = (len(chunks) - 1) // batch_size + 1
TotalBatches(n) == ((n - 1) \div batch_size) + 1

\* line 125: chunks[i:i + batch_size]
BatchAt(list, i) ==
    SubSeq(list, i + 1, IF i + batch_size < Len(list) THEN i + batch_size ELSE Len(list))

\* line 126: batch_num = i // batch_size + 1
BatchNum(i) == (i \div batch_size) + 1

\* line 124: range(0, len(chunks), batch_size)
NextOffset_Overlapping(i) == i + batch_size - 1

NextOffset(i) == i + batch_size

\* the row a chunk dict becomes: the column English_translation is NULL
InsertedRow(chunk) ==
    [chunk_id |-> chunk.chunk_id, content |-> chunk.content, translation |-> None]

\* lines 103-106: create_client; an exception goes to line 142 and is re-raised
UploadConnect ==
    /\ upload.pc = "called"
    /\ \/ upload' = [upload EXCEPT !.pc = "check"]
       \/ upload' = [upload EXCEPT !.pc = "raised"]
    /\ UNCHANGED <<asm_vars, ta, client_kinds, faults, store, run, stopped_store>>

\* lines 108-116: the test query; when it fails the method returns
UploadCheckTable ==
    /\ upload.pc = "check"
    /\ \/ upload' = [upload EXCEPT !.pc = "insert", !.i = 0]
       \/ upload' = [upload EXCEPT !.pc = "returned"]
    /\ UNCHANGED <<asm_vars, ta, client_kinds, faults, store, run, stopped_store>>

\* lines 124-133: one batch: the insert returns, or raises and is re-raised
UploadBatch ==
    /\ upload.pc = "insert"
    /\ upload.i < Len(upload.chunks)
    /\ LET batch == BatchAt(upload.chunks, upload.i) IN
       \/ /\ store' = store \o [k \in 1..Len(batch) |-> InsertedRow(batch[k])]
          /\ upload' = [upload EXCEPT !.i = NextOffset(upload.i),
                                      !.batches = Append(@, batch)]
       \/ /\ UNCHANGED store
          /\ upload' = [upload EXCEPT !.pc = "raised",
                                      !.failed_batch = Some(BatchNum(upload.i))]
    /\ UNCHANGED <<asm_vars, ta, client_kinds, faults, run, stopped_store>>

\* lines 135-139: after the last batch, the count of the table's rows
UploadVerify ==
    /\ upload.pc = "insert"
    /\ upload.i >= Len(upload.chunks)
    /\ \/ upload' = [upload EXCEPT !.pc = "returned", !.verified = Some(Len(store))]
       \/ upload' = [upload EXCEPT !.pc = "raised"]
    /\ UNCHANGED <<asm_vars, ta, client_kinds, faults, store, run, stopped_store>>

\* lines 181-195: main() is run again on the same file once the earlier upload
\* has returned or raised: parse_xml gives the same chunks, chunk_id from 1
UploadAgain ==
    /\ upload.pc \in {"returned", "raised"}
    /\ upload.earlier_calls + 1 < MaxUploads
    /\ upload' = [UploadIdle EXCEPT !.pc = "called",
                                    !.chunks = upload.chunks,
                                    !.earlier_calls = upload.earlier_calls + 1]
    /\ UNCHANGED <<asm_vars, ta, client_kinds, faults, store, run, stopped_store>>

\* the text a translation run writes into the uploaded table
StoredTranslation == Lit(<<"n", "e", "w">>)

\* src/english.py, lines 246-249: the update by another run of a chunk of its
\* worklist, keyed by its chunk_id. The NULL test is the filter of that run's
\* discovery (lines 188-197), made earlier, when the row was as it was
\* inserted; the update itself does not test the row's translation.
UpdateStored ==
    /\ \E k \in DOMAIN store :
          store' = UpdateTranslation(store, store[k].chunk_id, StoredTranslation)
    /\ UNCHANGED <<asm_vars, ta, client_kinds, faults, run, stopped_store, upload>>

UploadRest == upload = UploadIdle

\* no call of translate_accurately is active
TARest == ta = [p \in Procs |-> TAIdle]

\* no run of translate_from_id is active and the table is empty
RunRest ==
    /\ client_kinds = {}
    /\ faults = {}
    /\ store = <<>>
    /\ run = [p \in Procs |-> RunIdle]
    /\ stopped_store = [p \in Procs |-> None]
    /\ UploadRest

InitAsm == AsmStart /\ TARest /\ RunRest

SpecAsm == InitAsm /\ [][NextAsm]_vars

(***************************************************************************)
(* SpecRetry: one call of translate_accurately, for each text of TATexts   *)
(* and every sequence of client outcomes                                   *)
(***************************************************************************)
TATexts ==
    { Lit(<<" ", "a", "b", " ">>),                         \* too short once stripped
      Lit(<<"U+00A0", "a", "b", "\f">>),                   \* the same, other white space
      <<R("U+0967", 3)>>,                                  \* numeric, Devanagari digits
      Lit(<<"4", "2">>),                                   \* two digits
      Lit(<<"1", ".", "5">>),                              \* numeric
      Lit(<<"a", "b", "c">>),                              \* 3 characters
      <<R("a", 4000)>>,                                    \* at the threshold
      <<R("a", 4001)>>,                                    \* one part
      <<R("a", 101), R("danda", 1), R("b", 3900)>>,        \* two parts
      <<R("a", 4000), R("ddanda", 1), R("b", 2)>> }        \* a part of 2 characters

InitRetry ==
    /\ AsmIdle
    /\ client_kinds = ClientKinds
    /\ faults = Faults
    /\ store = <<>>
    /\ run = [p \in Procs |-> RunIdle]
    /\ stopped_store = [p \in Procs |-> None]
    /\ UploadRest
    /\ \E text \in TATexts :
          ta = [p \in Procs |-> IF p = 1 THEN TACalled(text, TRUE) ELSE TAIdle]

NextRetry ==
    \/ TA_Enter(1)
    \/ TA_Attempt(1)
    \/ TA_Direct(1)
    \/ TA_Except(1)
    \/ TA_Part(1)
    \/ TA_Join(1)

SpecRetry == InitRetry /\ [][NextRetry]_vars

\* the scheduler runs the one thread of translate_accurately until it returns
FairSpecRetry == SpecRetry /\ WF_vars(NextRetry)

(***************************************************************************)
(* SpecTrace: the same call, with the outcome of every fragment call and   *)
(* the last failure of the client kept as history                          *)
(***************************************************************************)
InitTrace ==
    /\ AsmIdle
    /\ client_kinds = ClientKinds
    /\ faults = Faults
    /\ store = <<>>
    /\ run = [p \in Procs |-> RunIdle]
    /\ stopped_store = [p \in Procs |-> None]
    /\ UploadRest
    /\ \E text \in TATexts :
          ta = [p \in Procs |-> IF p = 1 THEN TATraced(text) ELSE TAIdle]

SpecTrace == InitTrace /\ [][NextRetry]_vars

(***************************************************************************)
(* SpecSplit: one call of translate_accurately on a text of 4000 letters   *)
(* followed by up to MaxSplitRuns runs of letters, blanks and sentence     *)
(* enders; every client call returns 11 characters. A text that is 4000    *)
(* characters long after the strip of line 29 is sent whole (line 49 is    *)
(* false), a longer one is split.                                          *)
(***************************************************************************)
SplitRuns ==
    {R("a", 99), R("a", 100), R("b", 2), R(" ", 100), R("danda", 1), R("\n", 1)}

RECURSIVE CatAll(_)
CatAll(texts) == IF texts = <<>> THEN <<>> ELSE TCat(Head(texts), CatAll(Tail(texts)))

SplitTexts ==
    {CatAll(<<<<R("a", SplitThreshold)>>>> \o [k \in DOMAIN runs |-> <<runs[k]>>]) :
        runs \in SeqsUpTo(SplitRuns, MaxSplitRuns)}

InitSplit ==
    /\ AsmIdle
    /\ client_kinds = {"eleven"}
    /\ faults = {}
    /\ store = <<>>
    /\ run = [p \in Procs |-> RunIdle]
    /\ stopped_store = [p \in Procs |-> None]
    /\ UploadRest
    /\ \E text \in SplitTexts :
          ta = [p \in Procs |-> IF p = 1 THEN TATraced(text) ELSE TAIdle]

NextSplit ==
    \/ TA_Enter(1)
    \/ TA_Attempt(1)
    \/ TA_Direct(1)
    \/ TA_Part(1)
    \/ TA_Join(1)

SpecSplit == InitSplit /\ [][NextSplit]_vars

(***************************************************************************)
(* SpecRun: the table as uploaded (chunk_id 1..MaxRows, nothing            *)
(* translated), then process 1 runs translate_from_id over a range and,    *)
(* once it has ended, process 2 runs it over the same range.               *)
(***************************************************************************)
RunContents ==
    { <<R(" ", 2)>>,                    \* whitespace only
      Lit(<<"4", "2">>),                \* two digits, too short
      Lit(<<"a", "b", "c">>),           \* translated directly
      Lit(<<"1", "2", "3">>),           \* numeric
      <<R("a", 101), R("danda", 1), R("b", 3900)>>,    \* translated in two parts
      NullContent }                     \* NULL in the table

RunClientKinds == {"empty", "eleven"}

\* results of 3 and of 11 characters, neither equal to any content
QualifyingKinds == {"three", "eleven"}

StartIds == 1..MaxRows
EndIds == {None} \cup {Some(n) : n \in 1..MaxRows}

\* the ranges the first run is started on: the whole table, its tail, its
\* head, a range in its middle, a range with no chunk, and the end 0
RunRanges ==
    { <<1, None>>, <<MaxRows, Some(0)>>, <<2, None>>,
      <<1, Some(MaxRows - 1)>>, <<2, Some(MaxRows)>>, <<MaxRows, Some(1)>> }

InitRun ==
    /\ AsmIdle
    /\ TARest
    /\ client_kinds = RunClientKinds
    /\ faults = Faults
    /\ \E contents \in [1..MaxRows -> RunContents] :
          store = [k \in 1..MaxRows |->
                      [chunk_id |-> k, content |-> contents[k], translation |-> None]]
    /\ run = [p \in Procs |-> RunIdle]
    /\ stopped_store = [p \in Procs |-> None]
    /\ UploadRest

FirstRunStart ==
    \E range \in RunRanges : RunStart(1, range[1], range[2])

SecondRunStart ==
    /\ RunEnded(1)
    /\ RunStart(2, run[1].start_id, run[1].end_id)

NextRun ==
    \/ FirstRunStart
    \/ SecondRunStart
    \/ \E p \in Procs :
          \/ RunCountRange(p)
          \/ RunCountNull(p)
          \/ RunPrompt(p)
          \/ RunDiscover(p)
          \/ RunEmpty(p)
          \/ RunTooShort(p)
          \/ RunTranslate(p)
          \/ TA_Enter(p)
          \/ TA_Attempt(p)
          \/ TA_Direct(p)
          \/ TA_Except(p)
          \/ TA_Part(p)
          \/ TA_Join(p)
          \/ RunAfterTranslate(p)
          \/ RunSummary(p)
          \/ RunVerifyTotal(p)
          \/ RunVerifyHas(p)
          \/ RunVerifyNull(p)
          \/ Interrupt(p)

SpecRun == InitRun /\ [][NextRun]_vars

(***************************************************************************)
(* SpecPair: two processes run translate_from_id at the same time over     *)
(* ranges that share no chunk_id; their steps interleave in any order.     *)
(***************************************************************************)
PairContents ==
    { <<R(" ", 2)>>,                    \* whitespace only
      Lit(<<"4", "2">>),                \* too short
      Lit(<<"a", "b", "c">>) }          \* translated directly

\* no chunk_id lies in both ranges: one of them ends below its own start and
\* holds no chunk_id at all, or it ends below the start of the other
DisjointRanges(s1, e1, s2, e2) ==
    \/ EndGiven(e1) /\ (e1[1] < s1 \/ e1[1] < s2)
    \/ EndGiven(e2) /\ (e2[1] < s2 \/ e2[1] < s1)

InitPair ==
    /\ AsmIdle
    /\ TARest
    /\ client_kinds = RunClientKinds
    /\ faults = Faults
    /\ \E contents \in [1..MaxRows -> PairContents] :
          store = [k \in 1..MaxRows |->
                      [chunk_id |-> k, content |-> contents[k], translation |-> None]]
    /\ run = [p \in Procs |-> RunIdle]
    /\ stopped_store = [p \in Procs |-> None]
    /\ UploadRest

\* a process is started on a range disjoint from the other's, if that one
\* has been started
PairStart ==
    \E p \in Procs, start_id \in StartIds, end_id \in EndIds :
        /\ \A q \in Procs \ {p} :
              run[q].pc # "idle" =>
                  DisjointRanges(start_id, end_id, run[q].start_id, run[q].end_id)
        /\ RunStart(p, start_id, end_id)

NextPair ==
    \/ PairStart
    \/ \E p \in Procs :
          \/ RunCountRange(p)
          \/ RunCountNull(p)
          \/ RunPrompt(p)
          \/ RunDiscover(p)
          \/ RunEmpty(p)
          \/ RunTooShort(p)
          \/ RunTranslate(p)
          \/ TA_Enter(p)
          \/ TA_Attempt(p)
          \/ TA_Direct(p)
          \/ TA_Except(p)
          \/ RunAfterTranslate(p)
          \/ RunSummary(p)
          \/ RunVerifyTotal(p)
          \/ RunVerifyHas(p)
          \/ RunVerifyNull(p)

SpecPair == InitPair /\ [][NextPair]_vars

(***************************************************************************)
(* SpecOverlap: two processes run translate_from_id at the same time over  *)
(* any two ranges, on a table of which some rows were translated before;   *)
(* nothing raises and every call of the client gives a translation.        *)
(***************************************************************************)
OverlapContents ==
    { Lit(<<"4", "2">>),                \* too short
      Lit(<<"a", "b", "c">>) }          \* translated directly

\* what an earlier run has written
EarlierTranslation == Lit(<<"o", "l", "d">>)

InitOverlap ==
    /\ AsmIdle
    /\ TARest
    /\ client_kinds = QualifyingKinds
    /\ faults = {}
    /\ \E contents \in [1..MaxRows -> OverlapContents],
          before \in [1..MaxRows -> {None, Some(EarlierTranslation)}] :
          store = [k \in 1..MaxRows |->
                      [chunk_id |-> k, content |-> contents[k], translation |-> before[k]]]
    /\ run = [p \in Procs |-> RunIdle]
    /\ stopped_store = [p \in Procs |-> None]
    /\ UploadRest

OverlapStart ==
    \E p \in Procs, start_id \in StartIds, end_id \in EndIds :
        RunStart(p, start_id, end_id)

NextOverlap ==
    \/ OverlapStart
    \/ \E p \in Procs :
          \/ RunCountRange(p)
          \/ RunCountNull(p)
          \/ RunPrompt(p)
          \/ RunDiscover(p)
          \/ RunTooShort(p)
          \/ RunTranslate(p)
          \/ TA_Enter(p)
          \/ TA_Attempt(p)
          \/ TA_Direct(p)
          \/ RunAfterTranslate(p)
          \/ RunSummary(p)
          \/ RunVerifyTotal(p)
          \/ RunVerifyHas(p)
          \/ RunVerifyNull(p)

SpecOverlap == InitOverlap /\ [][NextOverlap]_vars

(***************************************************************************)
(* SpecProgress: one run of translate_from_id over a table of MaxWorklist  *)
(* rows that are all alike but one; the client either translates every     *)
(* text or returns nothing for every text, and nothing raises.             *)
(***************************************************************************)
ProgressContents ==
    { <<R(" ", 2)>>,                    \* whitespace only
      Lit(<<"4", "2">>),                \* too short
      Lit(<<"a", "b", "c">>) }          \* sent to the client

InitProgress ==
    /\ AsmIdle
    /\ TARest
    /\ client_kinds \in {{"eleven"}, {"empty"}}
    /\ faults = {}
    /\ \E filler \in ProgressContents, other \in ProgressContents,
          at \in 1..MaxWorklist :
          store = [k \in 1..MaxWorklist |->
                      [chunk_id |-> k,
                       content |-> IF k = at THEN other ELSE filler,
                       translation |-> None]]
    /\ run = [p \in Procs |-> RunIdle]
    /\ stopped_store = [p \in Procs |-> None]
    /\ UploadRest

ProgressStart ==
    \E start_id \in StartIds : RunStart(1, start_id, None)

NextProgress ==
    \/ ProgressStart
    \/ RunCountRange(1)
    \/ RunCountNull(1)
    \/ RunPrompt(1)
    \/ RunDiscover(1)
    \/ RunEmpty(1)
    \/ RunTooShort(1)
    \/ RunTranslate(1)
    \/ TA_Enter(1)
    \/ TA_Attempt(1)
    \/ TA_Direct(1)
    \/ RunAfterTranslate(1)
    \/ RunSummary(1)
    \/ RunVerifyTotal(1)
    \/ RunVerifyHas(1)
    \/ RunVerifyNull(1)

SpecProgress == InitProgress /\ [][NextProgress]_vars

(***************************************************************************)
(* SpecClean: one run of translate_from_id when nothing raises and every   *)
(* call of the client returns a text that passes the test made on it       *)
(* (lines 71 and 91-93)                                                    *)
(***************************************************************************)
CleanContents ==
    RunContents \cup { <<R("a", 4000), R("ddanda", 1), R("b", 2)>> }

InitClean ==
    /\ AsmIdle
    /\ TARest
    /\ client_kinds \in (SUBSET QualifyingKinds) \ {{}}
    /\ faults = {}
    /\ \E contents \in [1..MaxRows -> CleanContents] :
          store = [k \in 1..MaxRows |->
                      [chunk_id |-> k, content |-> contents[k], translation |-> None]]
    /\ run = [p \in Procs |-> RunIdle]
    /\ stopped_store = [p \in Procs |-> None]
    /\ UploadRest

NextClean ==
    \/ FirstRunStart
    \/ RunCountRange(1)
    \/ RunCountNull(1)
    \/ RunPrompt(1)
    \/ RunDiscover(1)
    \/ RunEmpty(1)
    \/ RunTooShort(1)
    \/ RunTranslate(1)
    \/ TA_Enter(1)
    \/ TA_Attempt(1)
    \/ TA_Direct(1)
    \/ TA_Part(1)
    \/ TA_Join(1)
    \/ RunAfterTranslate(1)
    \/ RunSummary(1)
    \/ RunVerifyTotal(1)
    \/ RunVerifyHas(1)
    \/ RunVerifyNull(1)

SpecClean == InitClean /\ [][NextClean]_vars

(***************************************************************************)
(* SpecUpload: upload_to_supabase is called with the chunks of a document  *)
(* (chunk_id 1..n) on an empty table.                                      *)
(***************************************************************************)
UploadLengths == 0..MaxUpload

InitUpload ==
    /\ AsmIdle
    /\ TARest
    /\ client_kinds = {}
    /\ faults = {}
    /\ store = <<>>
    /\ run = [p \in Procs |-> RunIdle]
    /\ stopped_store = [p \in Procs |-> None]
    /\ \E n \in UploadLengths :
          upload = [UploadIdle EXCEPT
                      !.pc = "called",
                      !.chunks = [k \in 1..n |->
                                    [chunk_id |-> k, content |-> Lit(<<"a", "b", "c">>)]]]

NextUpload == UploadConnect \/ UploadCheckTable \/ UploadBatch \/ UploadVerify

SpecUpload == InitUpload /\ [][NextUpload]_vars

(***************************************************************************)
(* SpecVerify: verify_range(start_id, end_id) is called on a table of up   *)
(* to MaxVerifyRows rows of which the first few hold a translation         *)
(***************************************************************************)
\* the whole table, its tail, the end 0, its first row, a range in its middle,
\* a range past its last row
VerifyRanges ==
    { <<1, None>>, <<2, None>>, <<1, Some(0)>>, <<1, Some(1)>>,
      <<2, Some(MaxVerifyRows - 1)>>, <<MaxVerifyRows + 1, None>> }

InitVerify ==
    /\ AsmIdle
    /\ TARest
    /\ client_kinds = {}
    /\ faults = {}
    /\ \E n \in 0..MaxVerifyRows : \E h \in 0..n :
          store = [k \in 1..n |->
                      [chunk_id |-> k, content |-> Lit(<<"a", "b", "c">>),
                       translation |-> IF k <= h THEN Some(EarlierTranslation)
                                       ELSE None]]
    /\ run = [p \in Procs |-> RunIdle]
    /\ stopped_store = [p \in Procs |-> None]
    /\ UploadRest

\* line 294: the call
VerifyCall ==
    /\ run[1].pc = "idle"
    /\ \E range \in VerifyRanges :
          RunSet(1, [RunIdle EXCEPT !.pc = "verify", !.start_id = range[1],
                                    !.end_id = range[2]])
    /\ UNCHANGED <<asm_vars, upload, ta, store, stopped_store, client_kinds, faults>>

NextVerify ==
    \/ VerifyCall
    \/ RunVerifyTotal(1)
    \/ RunVerifyHas(1)
    \/ RunVerifyNull(1)

SpecVerify == InitVerify /\ [][NextVerify]_vars

(***************************************************************************)
(* SpecReupload: the uploader is run on a document, and run again on the   *)
(* same document, against the table of get_table_schema (lines 149-160:    *)
(* the key is the serial id, chunk_id is an indexed INTEGER NOT NULL       *)
(* column without a UNIQUE constraint, so an insert never fails on it);    *)
(* the rows are then updated by chunk_id as english.py does.               *)
(***************************************************************************)
\* main() calls upload_to_supabase only with at least one chunk: parse_xml
\* raises at line 95 on a document without text (line 185, caught at line 200)
ReuploadLengths == 1..MaxDocument

InitReupload ==
    /\ AsmIdle
    /\ TARest
    /\ client_kinds = {}
    /\ faults = {}
    /\ store = <<>>
    /\ run = [p \in Procs |-> RunIdle]
    /\ stopped_store = [p \in Procs |-> None]
    /\ \E n \in ReuploadLengths :
          upload = [UploadIdle EXCEPT
                      !.pc = "called",
                      !.chunks = [k \in 1..n |->
                                    [chunk_id |-> k, content |-> Lit(<<"a", "b", "c">>)]]]

NextReupload ==
    \/ UploadConnect
    \/ UploadCheckTable
    \/ UploadBatch
    \/ UploadVerify
    \/ UploadAgain
    \/ UpdateStored

SpecReupload == InitReupload /\ [][NextReupload]_vars

(***************************************************************************)
(* SpecRace: translate_from_id runs from chunk_id 1 with no end, or         *)
(* verify_range is called, on the table                                    *)
(* while main() uploads a document into it and another process             *)
(* updates rows by chunk_id. The table is shared, and each count of lines  *)
(* 132-150 and 301-331 is a request of its own, so that inserts and        *)
(* updates of the other processes come between two counts.                 *)
(***************************************************************************)
InitRace ==
    /\ AsmIdle
    /\ TARest
    /\ client_kinds = {"eleven"}
    /\ faults = {}
    /\ store = <<>>
    /\ run = [p \in Procs |-> RunIdle]
    /\ stopped_store = [p \in Procs |-> None]
    /\ \E n \in ReuploadLengths :
          upload = [UploadIdle EXCEPT
                      !.pc = "called",
                      !.chunks = [k \in 1..n |->
                                    [chunk_id |-> k, content |-> Lit(<<"a", "b", "c">>)]]]

\* line 360: translate_from_id(1, None)
RaceRunStart == RunStart(1, 1, None)

NextRace ==
    \/ UploadConnect
    \/ UploadCheckTable
    \/ UploadBatch
    \/ UploadVerify
    \/ UpdateStored
    \/ RaceRunStart
    \/ VerifyCall
    \/ RunCountRange(1)
    \/ RunCountNull(1)
    \/ RunPrompt(1)
    \/ RunDiscover(1)
    \/ RunTranslate(1)
    \/ TA_Enter(1)
    \/ TA_Attempt(1)
    \/ TA_Direct(1)
    \/ RunAfterTranslate(1)
    \/ RunSummary(1)
    \/ RunVerifyTotal(1)
    \/ RunVerifyHas(1)
    \/ RunVerifyNull(1)

SpecRace == InitRace /\ [][NextRace]_vars

(***************************************************************************)
(* ShivPuranSanskritTranslator (src/newtrans.py, lines 223-367), the other *)
(* translation script. It reads and writes the column english_translation: *)
(* in SpecNewtrans the field translation of a row stands for that column.  *)
(* A run of translate_all is kept in the same record as a run of           *)
(* translate_from_id (chunks, total, i, translated, failed).               *)
(***************************************************************************)
\* line 252
MinChunkLen == 5
\* line 256
SentenceThreshold == 800
\* line 263
MinSentenceLen == 5

\* LightweightSanskritTranslator.translate, lines 128-220, returns the text
\* of the model stripped (line 216), or None when anything raised (line 220)
TranslateOutcomes == client_kinds \cup (IF "client" \in faults THEN {"raised"} ELSE {})

Translate(outcome, text) ==
    IF outcome = "raised" THEN None ELSE Some(TStrip(ClientResult(outcome, text)))

\* "if trans:" (line 265) and "if translation:" (line 315)
Truthy(value) == value # None /\ value[1] # <<>>

\* line 258: content.replace(danda, danda + '\n')
\*                  .replace(double danda, double danda + '\n').split('\n')
RECURSIVE SentencesFrom(_, _)
SentencesFrom(t, current) ==
    IF t = <<>> THEN <<current>>
    ELSE LET h == Head(t)
         IN  IF h.c = "\n"
             THEN <<current>> \o [i \in 1..(h.n - 1) |-> <<>>]
                      \o SentencesFrom(Tail(t), <<>>)
             ELSE IF h.c \in {"danda", "ddanda"}
             THEN <<TCat(current, <<R(h.c, 1)>>)>>
                      \o [i \in 1..(h.n - 1) |-> <<R(h.c, 1)>>]
                      \o SentencesFrom(Tail(t), <<>>)
             ELSE SentencesFrom(Tail(t), TCat(current, <<h>>))

\* lines 261-263: the sentences that are sent to the translator, stripped
SentSentences(content) ==
    LET sentences == SentencesFrom(content, <<>>)
    IN  SelectSeq([i \in 1..Len(sentences) |-> TStrip(sentences[i])],
                  LAMBDA sentence : TLen(sentence) > MinSentenceLen)

\* translate_chunk, lines 247-270: the values it can return. For a content
\* of None line 249 raises (None has no strip) and it returns no value
TranslateChunk(chunk) ==
    LET content == TStrip(chunk.content)
        sent == SentSentences(content)
    IN  IF chunk.content = NullContent THEN {}
        ELSE IF TLen(content) < MinChunkLen THEN {None}
        ELSE IF TLen(content) > SentenceThreshold
        THEN {LET got == [i \in 1..Len(sent) |-> Translate(outcome[i], sent[i])]
                  kept == SelectSeq(got, Truthy)
              IN  Some(JoinSpace([i \in 1..Len(kept) |-> kept[i][1]])) :
                 outcome \in [1..Len(sent) -> TranslateOutcomes]}
        ELSE {Translate(outcome, content) : outcome \in TranslateOutcomes}

\* line 279: translate_all(batch_size, start_from) is called
TranslateAllCall(p, start_from) ==
    /\ run[p].pc = "idle"
    /\ RunSet(p, [RunIdle EXCEPT !.pc = "fetch", !.start_id = start_from])
    /\ UNCHANGED <<asm_vars, upload, ta, store, stopped_store, client_kinds, faults>>

\* lines 285-291 and get_untranslated_chunks, lines 232-245: the rows from
\* start_from on without a translation, by chunk_id; with none of them
\* translate_all returns
GetUntranslatedChunks(p) ==
    /\ run[p].pc = "fetch"
    /\ LET r == run[p]
           found == SelectNullChunks(store, r.start_id, None)
       IN  RunSet(p, [r EXCEPT
                        !.chunks = found, !.total = Len(found), !.i = 0,
                        !.pc = IF found = <<>> THEN "nothing_to_do" ELSE "loop",
                        !.worklist = Some([k \in 1..Len(found) |-> found[k].chunk_id])])
    /\ UNCHANGED <<asm_vars, upload, ta, store, stopped_store, client_kinds, faults>>

\* lines 305-328: one chunk of the loop. A translation is written and counted
\* (an update that raises is counted as failed at line 328); without one
\* nothing is written and nothing is counted (line 324). When translate_chunk
\* itself raises (line 312), the handler of line 326 counts the chunk as
\* failed too. The progress lines of 331-335 only print.
TranslateAllChunk(p) ==
    /\ run[p].pc = "loop"
    /\ run[p].i < run[p].total
    /\ LET r == [run[p] EXCEPT !.i = @ + 1]
           chunk == CurrentChunk(p)
       IN  IF TranslateChunk(chunk) = {}
           THEN /\ UNCHANGED store
                /\ RunSet(p, [r EXCEPT !.failed = @ + 1])
           ELSE \E translation \in TranslateChunk(chunk) :
                  IF Truthy(translation)
                  THEN \/ /\ store' = UpdateTranslation(store, chunk.chunk_id, translation[1])
                          /\ RunSet(p, Wrote([r EXCEPT !.translated = @ + 1], chunk.chunk_id))
                       \/ /\ "store" \in faults
                          /\ UNCHANGED store
                          /\ RunSet(p, [r EXCEPT !.failed = @ + 1, !.update_errors = @ + 1])
                  ELSE /\ UNCHANGED store
                       /\ RunSet(p, r)
    /\ UNCHANGED <<asm_vars, upload, ta, stopped_store, client_kinds, faults>>

\* lines 338-347: the summary. Line 345 divides by translated: with no chunk
\* translated it raises after the counters were printed, and verify is not
\* called
TranslateAllSummary(p) ==
    /\ run[p].pc = "loop"
    /\ run[p].i = run[p].total
    /\ RunSet(p, [run[p] EXCEPT
                    !.pc = IF run[p].translated = 0 THEN "raised" ELSE "verify",
                    !.tally = Some([translated |-> run[p].translated,
                                    failed |-> run[p].failed])])
    /\ UNCHANGED <<asm_vars, upload, ta, store, stopped_store, client_kinds, faults>>

\* verify, lines 349-367, asks the table twice.
\* lines 353-358: the rows of the table that hold a translation
VerifyTranslated(p) ==
    /\ run[p].pc = "verify"
    /\ run[p].queries = 0
    /\ RunSet(p, [run[p] EXCEPT
                    !.seen_has = Cardinality({k \in 1..Len(store) :
                                                 store[k].translation # None}),
                    !.queries = 1])
    /\ UNCHANGED <<asm_vars, upload, ta, store, stopped_store, client_kinds, faults>>

\* lines 360-367: the rows of the table, and the percentage (line 365 raises
\* on an empty table)
VerifyAllRows(p) ==
    /\ run[p].pc = "verify"
    /\ run[p].queries = 1
    /\ LET r == run[p]
           total == Len(store)
       IN  RunSet(p, IF total = 0
                     THEN [r EXCEPT !.pc = "raised", !.queries = 0, !.seen_has = 0]
                     ELSE [r EXCEPT
                             !.pc = "done", !.queries = 0, !.seen_has = 0,
                             !.verify = Some([total |-> total,
                                              has_trans |-> r.seen_has,
                                              percentage |->
                                                  PercentTenths(r.seen_has, total)])])
    /\ UNCHANGED <<asm_vars, upload, ta, store, stopped_store, client_kinds, faults>>

TranslateAllEnded(p) == run[p].pc \in {"nothing_to_do", "raised", "done"}

(***************************************************************************)
(* SpecNewtrans: translate_all is run on a table of MaxRows rows without a *)
(* translation, and run again when it has ended.                           *)
(***************************************************************************)
\* whitespace only, two and four characters (below the floor of line 252),
\* five characters, a text of 801 characters (one sentence), and one of 805
\* characters in three sentences of which the last is not sent
NewtransContents ==
    { NullContent,
      <<R(" ", 2)>>,
      Lit(<<"4", "2">>),
      <<R("a", 4)>>,
      <<R("a", 5)>>,
      <<R("a", 801)>>,
      <<R("a", 400), R("danda", 1), R("b", 400), R("\n", 1), R("c", 3)>> }

InitNewtrans ==
    /\ AsmIdle
    /\ TARest
    /\ client_kinds \in {{"eleven"}, {"empty", "eleven"}}
    /\ faults \in {{}, Faults}
    /\ \E contents \in [1..MaxRows -> NewtransContents] :
          store = [k \in 1..MaxRows |->
                      [chunk_id |-> k, content |-> contents[k], translation |-> None]]
    /\ run = [p \in Procs |-> RunIdle]
    /\ stopped_store = [p \in Procs |-> None]
    /\ UploadRest

NewtransFirstRun == \E start_from \in StartIds : TranslateAllCall(1, start_from)

NewtransSecondRun ==
    /\ TranslateAllEnded(1)
    /\ TranslateAllCall(2, run[1].start_id)

NextNewtrans ==
    \/ NewtransFirstRun
    \/ NewtransSecondRun
    \/ \E p \in Procs :
          \/ GetUntranslatedChunks(p)
          \/ TranslateAllChunk(p)
          \/ TranslateAllSummary(p)
          \/ VerifyTranslated(p)
          \/ VerifyAllRows(p)

SpecNewtrans == InitNewtrans /\ [][NextNewtrans]_vars


(***************************************************************************)
(* Properties of parse_xml (checked under SpecAsm)                         *)
(***************************************************************************)
Contents(cs) == [i \in 1..Len(cs) |-> cs[i].content]

\* the sealed chunks' contents, followed by the open buffer while iterating
AssembledSoFar ==
    Contents(chunks) \o
    (IF asm_pc = "iter" /\ current_chunk # <<>> THEN <<current_chunk>> ELSE <<>>)

\* the paragraphs of one content: the pieces between its line breaks
ParagraphsOf(content) == SplitLines(content)

\* the packing the specification states, as a function of the paragraph list:
\* append while len(buffer) + len(text) + 1 <= S, else seal and start anew
RECURSIVE GreedyPack(_, _, _)
GreedyPack(ps, buf, size) ==
    IF ps = <<>> THEN (IF buf = <<>> THEN <<>> ELSE <<buf>>)
    ELSE LET t == Head(ps) IN
         IF buf = <<>> THEN GreedyPack(Tail(ps), t, size)
         ELSE IF Len(buf) + Len(t) + 1 <= size
              THEN GreedyPack(Tail(ps), buf \o <<"\n">> \o t, size)
              ELSE <<buf>> \o GreedyPack(Tail(ps), t, size)

\* C6 (coverage): the contents of the chunks, joined in chunk_id order with
\* the line break and split again at the line breaks, are exactly the
\* non-empty normalized paragraphs in document order: none lost, none
\* duplicated, none reordered. While the stream is still being read the open
\* buffer counts as the last content; once the iteration has ended the
\* chunks alone hold every paragraph.
C6_Coverage ==
    (IF AssembledSoFar = <<>> THEN <<>>
     ELSE SplitLines(JoinLines(AssembledSoFar))) = paras

C6_Witness ==
    /\ asm_pc = "returned"
    /\ Len(chunks) >= 2
    /\ Len(paras) >= 3
    /\ \E i \in 1..Len(chunks) : Len(ParagraphsOf(chunks[i].content)) >= 2

\* C7 (budget): char_count is the length of content, and a chunk longer than
\* chunk_size consists of one single paragraph (which alone is longer than
\* chunk_size).
C7_Budget ==
    \A i \in 1..Len(chunks) :
        /\ chunks[i].char_count = Len(chunks[i].content)
        /\ \/ chunks[i].char_count <= chunk_size
           \/ /\ Len(ParagraphsOf(chunks[i].content)) = 1
              /\ \E k \in 1..Len(paras) :
                    paras[k] = chunks[i].content /\ Len(paras[k]) > chunk_size

\* an oversized lone paragraph beside a chunk filled to exactly chunk_size
C7_Witness ==
    /\ asm_pc = "returned"
    /\ \E i \in 1..Len(chunks) : chunks[i].char_count > chunk_size
    /\ \E i \in 1..Len(chunks) : chunks[i].char_count = chunk_size

\* C8 (ordering): the chunk_id values of the output are 1, 2, ..., n in
\* output order, the chunk sealed at the end of the stream included.
C8_Ordering ==
    \A i \in 1..Len(chunks) : chunks[i].chunk_id = i

C8_Witness ==
    /\ asm_pc = "returned"
    /\ Len(chunks) >= 3
    /\ chunks[Len(chunks)].chunk_id = 3

\* C9 (oversized paragraph): a paragraph longer than chunk_size is a content
\* of its own, whole: no content that holds such a paragraph holds a second
\* paragraph, and the paragraph is one of the contents, untruncated.
C9_OversizedAlone ==
    /\ \A i \in 1..Len(AssembledSoFar) :
          LET ps == ParagraphsOf(AssembledSoFar[i]) IN
          (\E j \in 1..Len(ps) : Len(ps[j]) > chunk_size) => Len(ps) = 1
    /\ \A k \in 1..Len(paras) :
          Len(paras[k]) > chunk_size =>
              \E i \in 1..Len(AssembledSoFar) : AssembledSoFar[i] = paras[k]

\* an oversized paragraph first, in the middle and last, beside a small one
C9_Witness ==
    /\ asm_pc = "returned"
    /\ Len(paras) = 4
    /\ Len(paras[1]) > chunk_size
    /\ Len(paras[2]) < chunk_size
    /\ Len(paras[3]) > chunk_size
    /\ Len(paras[4]) > chunk_size
    /\ Contents(chunks) = paras

\* C10 (greedy packing): the contents are the greedy packing of the
\* paragraph list (a paragraph joins the non-empty buffer, after one line
\* break, exactly when len(buffer) + len(text) + 1 <= chunk_size; otherwise
\* the buffer is sealed and the paragraph starts the next one), and for every
\* content but the last, adding the next content's first paragraph would
\* exceed chunk_size.
C10_GreedyPacking ==
    /\ AssembledSoFar = GreedyPack(paras, <<>>, chunk_size)
    /\ \A i \in 1..(Len(AssembledSoFar) - 1) :
          Len(AssembledSoFar[i])
            + Len(ParagraphsOf(AssembledSoFar[i + 1])[1]) + 1 > chunk_size

\* two paragraphs that fit form one chunk ("a", "a" with chunk_size 3 give
\* "a\na"), and a third that does not fit starts the next
C10_Witness ==
    /\ asm_pc = "returned"
    /\ chunk_size = 3
    /\ paras = << <<"a">>, <<"a">>, <<"a", "a">> >>
    /\ Contents(chunks) = << <<"a", "\n", "a">>, <<"a", "a">> >>


\* what a step of the parser may do to the cursor and to the chunk list
SectionStep ==
    /\ (current_section' # current_section) =>
          (/\ current_section' \in HeadingTexts
           /\ UNCHANGED <<chunks, current_chunk, chunk_id, paras>>)
    /\ (chunks' # chunks) =>
          (/\ Len(chunks') = Len(chunks) + 1
           /\ SubSeq(chunks', 1, Len(chunks)) = chunks
           /\ chunks'[Len(chunks')].section = current_section
           /\ current_section' = current_section)

\* C22: the section cursor starts at "Introduction" and only a heading with
\* non-empty text changes it, to that text, leaving the chunks, the buffer and
\* the counter as they are; every sealed chunk, the final one included, is
\* appended with the cursor's value at that moment as its section.
C22_SectionTagging ==
    /\ current_section = DefaultSection
    /\ [][SectionStep]_vars

\* a chunk sealed before any heading and a final chunk sealed under a heading
C22_Witness ==
    /\ asm_pc = "returned"
    /\ Len(chunks) = 2
    /\ chunks[1].section = DefaultSection
    /\ chunks[2].section \in HeadingTexts
    /\ current_section = chunks[2].section

\* the indexes in paras of the paragraphs of chunk k
RECURSIVE ParagraphsBefore(_)
ParagraphsBefore(k) ==
    IF k = 1 THEN 0
    ELSE ParagraphsBefore(k - 1) + Len(ParagraphsOf(chunks[k - 1].content))

ParagraphIndexes(k) ==
    (ParagraphsBefore(k) + 1)
        .. (ParagraphsBefore(k) + Len(ParagraphsOf(chunks[k].content)))

\* C23: the section of every chunk is a heading in force at one of the
\* chunk's own paragraphs ("Introduction" when none was): no chunk is tagged
\* with a heading that occurs after all of its paragraphs.
C23_NearestPrecedingHeading ==
    \A k \in 1..Len(chunks) :
        chunks[k].section \in {para_sections[i] : i \in ParagraphIndexes(k)}

(***************************************************************************)
(* Properties of translate_accurately (SpecRetry, FairSpecRetry)           *)
(***************************************************************************)
\* C4: translate_accurately begins at most 5 attempts, makes at most 5 client
\* calls for a text of at most 4000 characters, and always returns, either a
\* non-empty translation (Success) or None (Exhausted), whatever the client
\* does.
C4_RetryTermination ==
    /\ [](LET r == ta[1] IN
            /\ r.n_attempts <= max_attempts
            /\ TLen(r.text) <= SplitThreshold => r.calls <= max_attempts
            /\ r.pc = "returned" => (r.ret = None \/ r.ret[1] # <<>>))
    /\ <>(ta[1].pc = "returned")

\* five failed attempts, five calls, then Exhausted
C4_Witness ==
    /\ ta[1].pc = "returned"
    /\ ta[1].ret = None
    /\ ta[1].n_attempts = max_attempts
    /\ ta[1].calls = max_attempts
    /\ ta[1].n_fail.rate_limit + ta[1].n_fail.connection + ta[1].n_fail.other
         + ta[1].n_unq = max_attempts

\* the call returned on attempt k+1, every client call of the first k attempts
\* failed with a rate limit and every call of attempt k+1 gave a result that
\* qualified
RateLimitedThenSuccess(r, k) ==
    /\ r.pc = "returned"
    /\ r.n_attempts = k + 1
    /\ r.att_calls >= 1
    /\ r.att_ok = r.att_calls
    /\ r.n_unq = 0
    /\ r.n_fail.connection = 0
    /\ r.n_fail.other = 0
    /\ r.n_fail.rate_limit = r.calls - r.att_calls
    /\ k > 0 => r.n_fail.rate_limit >= k

\* C5: when the client fails with a rate limit on the first k attempts and
\* gives a qualifying result on attempt k+1, translate_accurately returns the
\* (trimmed) result of that attempt and has slept exactly k rate-limit
\* cooldowns.
C5_RateLimitedThenSuccess ==
    \A k \in 0..(max_attempts - 1) :
        RateLimitedThenSuccess(ta[1], k) =>
            /\ ta[1].ret # None
            /\ ta[1].ret = IF TLen(ta[1].text) > SplitThreshold
                           THEN Some(JoinSpace(ta[1].translations))
                           ELSE Some(TStrip(ta[1].last_result[1]))
            /\ ta[1].n_cool.rate_limit = k

\* translate_accurately on a numeric text of at least 3 characters returns
\* "[numeric: <text>]" with no client call and no delay (the part of C11
\* that lines 32-37 keep).
NumericFromThreeNoCall ==
    LET r == ta[1] IN
    (r.pc \notin {"idle", "called"} /\ IsNumericText(r.text)
        /\ TLen(r.text) >= MinTextLen) =>
        /\ r.pc = "returned"
        /\ r.ret = Some(NumericMark(r.text))
        /\ r.calls = 0 /\ r.n_attempts = 0 /\ r.slept = <<>>

\* the fragments of the text that are sent to the client (line 66)
SentParts(text) ==
    SelectSeq(SplitSentences(text), LAMBDA part : TLen(part) >= MinPartLen)

\* C20: for a text of more than 4000 characters, when translate_accurately
\* has returned, every rate-limit or connection failure of a fragment call
\* was followed by its cooldown, and a translation that was returned holds a
\* result for every fragment sent (a fragment whose call failed was retried
\* until it gave one).
C20_FragmentRetryPolicy ==
    LET r == ta[1] IN
    (r.pc = "returned" /\ TLen(r.text) > SplitThreshold) =>
        /\ r.n_cool.rate_limit = r.n_fail.rate_limit
        /\ r.n_cool.connection = r.n_fail.connection
        /\ r.ret # None => Len(r.translations) = Len(SentParts(r.text))

\* C21: translate_accurately never returns as Success a value that is empty
\* or equal to its trimmed input text; a client result that echoes the input,
\* with or without surrounding whitespace, counts as a failed attempt, so a
\* call whose last client result was an echo has not returned a Success.
C21_QualityCheck ==
    LET r == ta[1] IN
    r.pc = "returned" =>
        /\ r.ret # None => (r.ret[1] # <<>> /\ r.ret[1] # r.text)
        /\ (TLen(r.text) <= SplitThreshold /\ r.last_result # None
               /\ TStrip(r.last_result[1]) = r.text) => r.ret = None

\* the results of the fragment calls that succeeded, trimmed, in fragment
\* order: the call returned, and what it returned is neither blank nor the
\* fragment itself, with or without surrounding whitespace
RECURSIVE SucceededFragments(_)
SucceededFragments(frag) ==
    IF frag = <<>> THEN <<>>
    ELSE LET f == Head(frag)
             ok == /\ f.out # None
                   /\ TStrip(f.out[1]) # <<>>
                   /\ TStrip(f.out[1]) # f.part
         IN  (IF ok THEN <<TStrip(f.out[1])>> ELSE <<>>)
                \o SucceededFragments(Tail(frag))

\* C24: for a text of more than 4000 characters, a translation returned is
\* the results of the fragments that succeeded in that attempt, joined in
\* fragment order by one space, the fragments whose call failed or echoed
\* left out; when no fragment succeeded the call returns None (Exhausted).
C24_SplitJoin ==
    LET r == ta[1] IN
    (r.pc = "returned" /\ TLen(r.text) > SplitThreshold) =>
        /\ r.ret # None => r.ret[1] = JoinSpace(SucceededFragments(r.frag))
        /\ SucceededFragments(r.frag) = <<>> => r.ret = None

\* the last failure of the client has been dealt with
Handled(r) == r.last_fail # None /\ r.pc # "except"

FinalAttempt == max_attempts - 1

\* C27: an Other failure on the final (5th) attempt returns None at once,
\* with no cooldown; an Other failure on an earlier attempt sleeps 5 s and is
\* followed by another attempt; a RateLimited or Transient failure on the
\* final attempt sleeps its cooldown and then returns None with no further
\* client call.
C27_FinalAttempt ==
    LET r == ta[1] IN
    Handled(r) =>
        LET f == r.last_fail[1] IN
        /\ (f.class = "other" /\ f.attempt = FinalAttempt) =>
              /\ r.pc = "returned" /\ r.ret = None
              /\ f.cool = None /\ r.calls = f.calls
        /\ (f.class = "other" /\ f.attempt < FinalAttempt) =>
              /\ f.cool = Some(OtherCooldown)
              /\ r.pc = "returned" => r.calls > f.calls
        /\ (f.class = "rate_limit" /\ f.attempt = FinalAttempt) =>
              /\ f.cool = Some(RateLimitWait(FinalAttempt))
              /\ r.calls = f.calls
              /\ r.pc = "returned" => r.ret = None
        /\ (f.class = "connection" /\ f.attempt = FinalAttempt) =>
              /\ f.cool = Some(ConnectionWait(FinalAttempt))
              /\ r.calls = f.calls
              /\ r.pc = "returned" => r.ret = None

\* the part of C27 that the code keeps: the same, for a text of at most 4000
\* characters
FinalAttemptDirect ==
    TLen(ta[1].text) <= SplitThreshold => C27_FinalAttempt

\* C28: with attempt index a = 0..4 the delay base before each attempt is
\* 3 + 2a (strictly growing; up to 2 s of jitter are added to it), the cooldown after RateLimited is 20 + 10a, after
\* Transient 10 + 5a and after Other 5, so RateLimited waits longer than
\* Transient and Transient longer than Other at every index; a failure whose
\* message matches both the rate-limit and the connection pattern is handled
\* as RateLimited. Every attempt, the first included, begins with its delay,
\* and every cooldown slept has the value of its class and attempt.
C28_DifferentiatedBackoff ==
    LET r == ta[1] IN
    /\ \A a \in 0..(max_attempts - 1) :
          /\ \A jitter \in UniformDraws(0, DelayJitter) :
                ProgressiveDelay(a, jitter) = 3 + 2 * a + jitter
          /\ a > 0 => ProgressiveDelay(a, 0) > ProgressiveDelay(a - 1, 0)
          /\ RateLimitWait(a) = 20 + 10 * a
          /\ ConnectionWait(a) = 10 + 5 * a
          /\ OtherCooldown = 5
          /\ RateLimitWait(a) > ConnectionWait(a)
          /\ ConnectionWait(a) > OtherCooldown
    /\ \A e \in ClientFailures :
          (IsRateLimit(e) /\ IsConnection(e)) => FailureClass(e) = "rate_limit"
    /\ (r.pc = "direct" \/ (r.pc = "part" /\ r.i = 0)) =>
          /\ r.attempt \in 0..(max_attempts - 1)
          /\ Len(r.slept) = 1 /\ r.slept[1].kind = "delay"
          /\ r.slept[1].secs \in (3 + 2 * r.attempt)..(3 + 2 * r.attempt + 2)
    /\ (Handled(r) /\ r.last_fail[1].cool # None) =>
          LET f == r.last_fail[1] IN
          /\ f.both => f.cool = Some(20 + 10 * f.attempt)
          /\ f.class = "rate_limit" => f.cool = Some(20 + 10 * f.attempt)
          /\ f.class = "connection" => f.cool = Some(10 + 5 * f.attempt)
          /\ f.class = "other" => f.cool = Some(5)
    /\ \A k \in 1..Len(r.slept) :
          /\ r.slept[k].kind = "rate_limit" =>
                r.slept[k].secs = 20 + 10 * (r.attempt - 1)
          /\ r.slept[k].kind = "connection" =>
                r.slept[k].secs = 10 + 5 * (r.attempt - 1)
          /\ r.slept[k].kind = "other" => r.slept[k].secs = 5

\* a failure on the final attempt whose message matches both patterns was
\* followed by the rate-limit cooldown of index 4, 60 s, after a delay of 11 s
C28_Witness ==
    LET r == ta[1] IN
    /\ r.pc = "attempt"
    /\ r.n_attempts = max_attempts
    /\ r.last_fail # None
    /\ r.last_fail[1].both
    /\ r.last_fail[1].attempt = 4
    /\ r.slept = <<Sleep("rate_limit", 60)>>
    /\ r.n_fail.connection = 1 /\ r.n_fail.other = 1

(***************************************************************************)
(* Properties of translate_from_id (SpecRun)                               *)
(***************************************************************************)
Ids(seq) == {seq[k] : k \in 1..Len(seq)}

\* the chunk_ids of the range whose translation is NULL in the table
NullIdsInRange(table, start_id, end_id) ==
    {table[k].chunk_id : k \in {j \in 1..Len(table) :
        /\ table[j].chunk_id >= start_id
        /\ (end_id # None /\ end_id[1] # 0) => table[j].chunk_id <= end_id[1]
        /\ table[j].translation = None}}

StrictlyIncreasing(seq) == \A k \in 1..(Len(seq) - 1) : seq[k] < seq[k + 1]

TranslationOf(table, id) ==
    {table[k].translation : k \in {j \in 1..Len(table) : table[j].chunk_id = id}}

\* the second run has just read its worklist
SecondRunDiscovered == run[2].pc = "loop" /\ run[2].i = 0

\* C1: after the first run was interrupted, every translation the table held
\* at that moment is still there unchanged, and the worklist the next run
\* over the same range reads is exactly the in-range chunks whose translation
\* is NULL, in chunk_id order, all of them from the interrupted run's worklist.
C1_Resumability ==
    run[1].pc = "stopped" =>
        /\ LET before == stopped_store[1][1] IN
           /\ Len(store) = Len(before)
           /\ \A k \in 1..Len(before) :
                 /\ store[k].chunk_id = before[k].chunk_id
                 /\ store[k].content = before[k].content
                 /\ before[k].translation # None =>
                        store[k].translation = before[k].translation
        /\ SecondRunDiscovered =>
              /\ Ids(run[2].worklist[1]) =
                    NullIdsInRange(store, run[1].start_id, run[1].end_id)
              /\ StrictlyIncreasing(run[2].worklist[1])
              /\ run[1].worklist # None =>
                    /\ Ids(run[2].worklist[1]) \subseteq Ids(run[1].worklist[1])
                    /\ Len(run[2].worklist[1]) <= Len(run[1].worklist[1])

\* the first run was stopped after it had written a translation and before it
\* had handled its last chunk; the second run has read a shorter worklist
C1_Witness ==
    /\ run[1].pc = "stopped"
    /\ run[1].written # {}
    /\ SecondRunDiscovered
    /\ run[2].worklist[1] # <<>>
    /\ Len(run[2].worklist[1]) < Len(run[1].worklist[1])

\* every chunk of the run's worklist was written by the run
AllSucceeded(r) ==
    r.pc = "done" /\ r.worklist # None /\ Ids(r.worklist[1]) \subseteq r.written

\* C2: the worklist of a second run over the same range holds no chunk the
\* first run wrote (a translation or a marker); when the first run wrote all
\* its chunks, the second run finds nothing NULL, reads no worklist and never
\* calls translate_accurately, so no client call is made.
C2_Idempotence ==
    /\ run[2].worklist # None => Ids(run[2].worklist[1]) \cap run[1].written = {}
    /\ AllSucceeded(run[1]) =>
          /\ run[2].pc \in {"idle", "count", "nothing_to_do", "stopped"}
          /\ run[2].null_count = 0
          /\ run[2].worklist = None
          /\ ta[2] = TAIdle

\* the first run wrote one chunk and left another, which the second run reads
C2_WitnessPartial ==
    /\ run[1].pc = "done"
    /\ run[1].written # {}
    /\ run[2].worklist # None
    /\ run[2].worklist[1] # <<>>
    /\ Ids(run[2].worklist[1]) \cup run[1].written = Ids(run[1].worklist[1])

\* the first run wrote every chunk of the table; the second run has ended
C2_Witness ==
    /\ AllSucceeded(run[1])
    /\ Len(run[1].worklist[1]) = MaxRows
    /\ run[1].translated >= 1
    /\ run[2].pc = "nothing_to_do"

\* C3: a chunk for which translate_accurately returned None is not written by
\* that run; its translation stays NULL, and the next run's worklist holds it.
C3_NoSilentFailureMarking ==
    /\ \A p \in Procs : \A id \in run[p].exhausted : id \notin run[p].written
    /\ \A id \in run[1].exhausted :
          IF run[2].worklist = None
          THEN TranslationOf(store, id) = {None}
          ELSE id \in Ids(run[2].worklist[1])
    /\ \A id \in run[2].exhausted : TranslationOf(store, id) = {None}

\* the first run ended with an exhausted chunk, which the second run has read
C3_Witness ==
    /\ run[1].pc = "done"
    /\ run[1].exhausted # {}
    /\ run[1].failed >= 1
    /\ SecondRunDiscovered
    /\ run[1].exhausted \subseteq Ids(run[2].worklist[1])
    /\ \A id \in run[1].exhausted : TranslationOf(store, id) = {None}

\* the rows whose trimmed content is digits, spaces, periods and commas only
NumericRows == {k \in 1..Len(store) : IsNumericText(TStrip(store[k].content))}

\* C11: a chunk whose trimmed content is numeric is never written anything
\* but "[numeric: <content>]".
C11_NumericSentinel ==
    \A k \in NumericRows :
        store[k].translation # None =>
            store[k].translation = Some(NumericMark(TStrip(store[k].content)))

\* content that is empty once trimmed / shorter than 3 characters once trimmed
BlankContent(content) == TLen(TStrip(content)) = 0
ShortContent(content) == ~BlankContent(content) /\ TLen(TStrip(content)) < 3

RowsOf(id) == {k \in 1..Len(store) : store[k].chunk_id = id}

\* the chunks of its worklist the run has finished with
HandledBy(p) ==
    {run[p].chunks[j] : j \in 1..(IF run[p].pc = "translating"
                                   THEN run[p].i - 1 ELSE run[p].i)}

\* the chunk_ids the run wrote whose content is blank or short
SentinelsWrittenBy(p) ==
    {id \in run[p].written :
        \E k \in RowsOf(id) : BlankContent(store[k].content)
                                \/ ShortContent(store[k].content)}

\* C12 as stated: every blank chunk a run has handled holds "[empty]" and
\* every short one "[too short]".
C12_SentinelAlwaysWritten ==
    \A p \in Procs : \A chunk \in HandledBy(p) : \A k \in RowsOf(chunk.chunk_id) :
        /\ BlankContent(chunk.content) => store[k].translation = Some(EmptyMark)
        /\ ShortContent(chunk.content) => store[k].translation = Some(TooShortMark)

\* What translate_from_id of english.py does (SpecRun): a blank chunk is only
\* ever written "[empty]" and a short one "[too short]", by an update that
\* may fail and then leaves the row NULL; the run counts as skipped exactly
\* the markers it wrote, translate_accurately is never active for such a
\* chunk, and a chunk that holds its marker is not in the worklist of the
\* second run.
C12_SentinelTerminality ==
    /\ \A k \in 1..Len(store) :
          /\ BlankContent(store[k].content) =>
                store[k].translation \in {None, Some(EmptyMark)}
          /\ ShortContent(store[k].content) =>
                store[k].translation \in {None, Some(TooShortMark)}
    /\ \A p \in Procs :
          /\ run[p].pc \in {"loop", "translating", "verify", "done"} =>
                run[p].skipped = Cardinality(SentinelsWrittenBy(p))
          /\ \A id \in SentinelsWrittenBy(p) : \A k \in RowsOf(id) :
                store[k].translation # None
          /\ ta[p].pc # "idle" =>
                /\ run[p].pc = "translating"
                /\ ~BlankContent(run[p].chunks[run[p].i].content)
                /\ ~ShortContent(run[p].chunks[run[p].i].content)
    /\ run[2].worklist # None =>
          Ids(run[2].worklist[1]) \cap SentinelsWrittenBy(1) = {}

\* the first run wrote "[empty]" and "[too short]" and counted two skipped;
\* the second run found nothing to do
C12_Witness ==
    /\ run[1].pc = "done"
    /\ run[1].skipped = 2
    /\ \E j, k \in 1..Len(store) :
          /\ store[j].translation = Some(EmptyMark)
          /\ store[k].translation = Some(TooShortMark)
    /\ run[2].pc = "nothing_to_do"

\* What translate_all of newtrans.py does (SpecNewtrans): a chunk of fewer than
\* 5 characters once trimmed is never written, never counted as skipped and
\* never sent to the translator, and every run from its chunk_id on finds it
\* again; so is a chunk whose content is NULL, which is counted as failed
NewtransShortLeftNull ==
    /\ \A k \in 1..Len(store) :
          TLen(TStrip(store[k].content)) < MinChunkLen => store[k].translation = None
    /\ \A p \in Procs :
          /\ run[p].skipped = 0
          /\ run[p].pc \in {"loop", "verify", "done", "raised"} =>
                /\ run[p].translated + run[p].failed <= run[p].i
                /\ \A k \in 1..Len(store) :
                      (/\ TLen(TStrip(store[k].content)) < MinChunkLen
                       /\ store[k].chunk_id >= run[p].start_id)
                          => store[k].chunk_id \in Ids(run[p].worklist[1])

\* the first run translated chunk 2 and verified; the second run has the
\* chunk "42" in its worklist again
NewtransFoundAgain ==
    /\ run[1].pc = "done"
    /\ run[1].tally = Some([translated |-> 1, failed |-> 0])
    /\ store[1].content = Lit(<<"4", "2">>)
    /\ store[1].translation = None
    /\ store[2].translation # None
    /\ run[2].pc = "loop"
    /\ run[2].worklist = Some(<<1>>)

\* a chunk of 805 characters: two sentences were sent and their translations
\* joined, the third (3 characters) was not sent
NewtransSentencesJoined ==
    \E k \in 1..Len(store) :
        /\ TLen(store[k].content) = 805
        /\ store[k].translation = Some(JoinSpace(<< <<R("y", 11)>>, <<R("y", 11)>> >>))

\* a run of translate_all whose chunks were all too short: nothing written,
\* "Translated: 0" printed, line 345 raised and verify was not called
NewtransNothingTranslated ==
    /\ run[1].pc = "raised"
    /\ run[1].i = run[1].total /\ run[1].total >= 1
    /\ run[1].tally = Some([translated |-> 0, failed |-> 0])
    /\ run[1].verify = None
    /\ \A k \in 1..Len(store) : store[k].translation = None

\* a run over the whole table went through its worklist beside a run over a
\* range that holds no chunk_id
BesideEmptyRange ==
    /\ run[1].pc = "done"
    /\ run[1].start_id = 1 /\ run[1].end_id = None
    /\ run[1].total = Len(store)
    /\ run[2].pc # "idle"
    /\ run[2].start_id = 2 /\ run[2].end_id = Some(1)

\* a chunk whose content is NULL was counted as failed by translate_all and
\* left as it was
NewtransNullContentFailed ==
    /\ run[1].pc = "done"
    /\ run[1].tally = Some([translated |-> 1, failed |-> 1])
    /\ store[1].content = NullContent
    /\ store[1].translation = None
    /\ store[2].translation # None
    /\ faults = {}

\* translate_from_id wrote "[empty]" for a chunk whose content is NULL
NullContentMarkedEmpty ==
    /\ run[1].pc = "done"
    /\ run[1].skipped >= 1
    /\ \E k \in 1..Len(store) :
          /\ store[k].content = NullContent
          /\ store[k].translation = Some(EmptyMark)

InLoop(r) == r.pc \in {"loop", "translating"}

\* C13: whatever happens to a chunk (translate_accurately returns None, the
\* update of a translation or of a marker raises), the run stays in its loop
\* over the same worklist and moves on by at most one chunk; it leaves the
\* loop only past the last chunk, or by being stopped from outside.
C13_FailureIsolation ==
    [][\A p \in Procs :
         InLoop(run[p]) =>
           IF InLoop(run'[p])
           THEN /\ run'[p].chunks = run[p].chunks
                /\ run'[p].total = run[p].total
                /\ run'[p].i \in {run[p].i, run[p].i + 1}
                /\ run'[p].i > run[p].i => run[p].pc = "loop"
           ELSE \/ run'[p].pc = "stopped"
                \/ /\ run[p].pc = "loop"
                   /\ run[p].i = run[p].total
                   /\ run'[p].pc = "verify"]_vars

\* the first chunk of the worklist was exhausted, a later one was translated
\* and written, and the run has ended
C13_Witness ==
    /\ run[1].pc = "done"
    /\ run[1].total >= 2
    /\ run[1].chunks[1].chunk_id \in run[1].exhausted
    /\ run[1].chunks[run[1].total].chunk_id \in run[1].written
    /\ run[1].failed >= 1
    /\ run[1].translated >= 1

\* C14: a run that has ended of itself (not stopped, not declined at the
\* prompt) has printed its tally and has run verify_range.
C14_TallyThenVerify ==
    \A p \in Procs :
        run[p].pc \in {"nothing_to_do", "done"} =>
            run[p].tally # None /\ run[p].verify # None

\* a run that went through its loop ends with the tally and the verification,
\* also when nothing was translated (the part of C14 that lines 279-292 keep)
LoopEndsWithTallyAndVerify ==
    \A p \in Procs :
        /\ run[p].pc = "done" => run[p].tally # None /\ run[p].verify # None
        /\ run[p].pc = "verify" => run[p].tally # None /\ run[p].verify = None
        /\ run[p].verify # None => run[p].pc = "done"

\* C15: the failed counter of a run counts every update of the run that
\* raised, next to the chunks translate_accurately gave up on.
C15_UpdateFailuresCounted ==
    \A p \in Procs :
        InLoop(run[p]) \/ run[p].pc \in {"verify", "done"} =>
            run[p].failed = run[p].update_errors + Cardinality(run[p].exhausted)

\* C29: after the run has processed the first i chunks of its worklist,
\* translated + skipped + failed = i, and the tally printed at the end
\* accounts for every chunk of the worklist exactly once.
C29_TallyInvariant ==
    \A p \in Procs :
        LET r == run[p] IN
        /\ r.pc \in {"loop", "verify", "done"} =>
              r.translated + r.skipped + r.failed = r.i
        /\ r.tally # None =>
              r.tally[1].translated + r.tally[1].skipped + r.tally[1].failed
                  = Len(r.worklist[1])

(***************************************************************************)
(* Properties of two runs at the same time (SpecPair)                      *)
(***************************************************************************)
\* the range process p was started on holds the chunk_id
Owns(p, id) ==
    /\ run[p].pc # "idle"
    /\ id >= run[p].start_id
    /\ (run[p].end_id # None /\ run[p].end_id[1] # 0) => id <= run[p].end_id[1]

\* process p took the step
StepOf(p) == run'[p] # run[p] \/ ta'[p] # ta[p]

\* what a run alone on the table writes for a content, given the client of
\* RunClientKinds (its only qualifying result is the text of 11 characters)
WrittenFor(content) ==
    IF BlankContent(content) THEN Some(EmptyMark)
    ELSE IF ShortContent(content) THEN Some(TooShortMark)
    ELSE Some(<<R("y", 11)>>)

\* C16: with two runs over disjoint ranges interleaved in any order, a row is
\* only changed by a step of the run whose range holds it; each run reads as
\* its worklist all the chunks of its own range, as it would alone; and every
\* row holds what its owner's run wrote for it, or NULL if that run wrote
\* nothing for it: the table is the one the two runs give one after the
\* other.
C16_DisjointRangesSafe ==
    /\ [][\A k \in 1..Len(store) :
             store'[k] # store[k] =>
                 \E p \in Procs :
                     /\ Owns(p, store[k].chunk_id)
                     /\ StepOf(p)
                     /\ \A q \in Procs \ {p} : ~StepOf(q)]_vars
    /\ [](\A p \in Procs :
             /\ run[p].worklist # None =>
                   Ids(run[p].worklist[1]) =
                       {store[k].chunk_id : k \in {j \in 1..Len(store) :
                                                     Owns(p, store[j].chunk_id)}}
             /\ \A k \in 1..Len(store) :
                   Owns(p, store[k].chunk_id) =>
                       store[k].translation =
                           IF store[k].chunk_id \in run[p].written
                           THEN WrittenFor(store[k].content) ELSE None)
    /\ [](\A k \in 1..Len(store) :
             (\A p \in Procs : ~Owns(p, store[k].chunk_id)) =>
                 store[k].translation = None)

\* both runs are inside their loops at the same time: the second has written
\* its row while the first is in a later attempt of translate_accurately
C16_Witness ==
    /\ run[1].pc = "translating"
    /\ ta[1].pc = "direct"
    /\ ta[1].attempt >= 1
    /\ run[2].pc = "loop"
    /\ run[2].written # {}
    /\ \E k \in 1..Len(store) :
          Owns(2, store[k].chunk_id) /\ store[k].translation # None

(***************************************************************************)
(* Discovery and order (SpecRun)                                           *)
(***************************************************************************)
\* the chunk_ids from start_id on, up to end_id when one was passed, whose
\* translation is NULL
NullIdsFromTo(table, start_id, end_id) ==
    {table[k].chunk_id : k \in {j \in 1..Len(table) :
        /\ table[j].chunk_id >= start_id
        /\ end_id # None => table[j].chunk_id <= end_id[1]
        /\ table[j].translation = None}}

\* C17: the worklist a run has just read is exactly the chunks of
\* start_id..end_id (start_id.. when no end was passed) with a NULL
\* translation, in increasing chunk_id order.
C17_DiscoveryExact ==
    \A p \in Procs :
        (run[p].pc = "loop" /\ run[p].i = 0) =>
            /\ Ids(run[p].worklist[1]) =
                  NullIdsFromTo(store, run[p].start_id, run[p].end_id)
            /\ StrictlyIncreasing(run[p].worklist[1])

\* the worklist is read once and handled one chunk at a time in increasing
\* chunk_id order: what the run has written or given up on lies among the
\* first i chunks, and translate_accurately is only active for chunk i (the
\* part of C17 that holds for every end_id)
OneAtATimeInOrder ==
    \A p \in Procs :
        (InLoop(run[p]) \/ run[p].pc \in {"verify", "done"}) =>
            /\ run[p].worklist =
                  Some([k \in 1..Len(run[p].chunks) |-> run[p].chunks[k].chunk_id])
            /\ StrictlyIncreasing(run[p].worklist[1])
            /\ run[p].written \cup run[p].exhausted \subseteq
                  {run[p].chunks[k].chunk_id : k \in 1..run[p].i}
            /\ ta[p].pc # "idle" =>
                  /\ run[p].pc = "translating"
                  /\ run[p].chunks[run[p].i].chunk_id \notin
                        run[p].written \cup run[p].exhausted
                  /\ TStrip(ta[p].text) = TStrip(run[p].chunks[run[p].i].content)

(***************************************************************************)
(* Write-once translation (SpecRun)                                        *)
(***************************************************************************)
\* process p is at the point where it issues the update for its chunk: at a
\* blank or short chunk of its loop, or with translate_accurately returned
AtUpdateOf(p, id) ==
    \/ /\ run[p].pc = "loop"
       /\ run[p].i < run[p].total
       /\ run[p].chunks[run[p].i + 1].chunk_id = id
       /\ ta[p].pc = "idle"
    \/ /\ run[p].pc = "translating"
       /\ run[p].chunks[run[p].i].chunk_id = id
       /\ ta[p].pc = "returned"
       /\ ta'[p].pc = "idle"

\* C18: over the runs one after the other, no row is deleted or has its
\* chunk_id or content changed; a translation only changes from NULL to a
\* value, in one step of the run that has the chunk in hand and has finished
\* translate_accurately for it; a run writes a chunk it has not written
\* before, and no chunk is written by both runs.
C18_WriteOnce ==
    /\ [][/\ Len(store') = Len(store)
          /\ \A k \in 1..Len(store) :
                /\ store'[k].chunk_id = store[k].chunk_id
                /\ store'[k].content = store[k].content
                /\ store'[k].translation # store[k].translation =>
                      /\ store[k].translation = None
                      /\ store'[k].translation # None
                      /\ \E p \in Procs :
                            /\ AtUpdateOf(p, store[k].chunk_id)
                            /\ store[k].chunk_id \notin run[p].written
                            /\ run'[p].written =
                                  run[p].written \cup {store[k].chunk_id}]_vars
    /\ [](run[1].written \cap run[2].written = {})

\* the first run wrote one chunk and gave up on another, which the second
\* run has written
C18_Witness ==
    /\ run[1].pc = "done"
    /\ run[1].written # {}
    /\ run[1].exhausted # {}
    /\ run[2].pc = "done"
    /\ run[2].written = run[1].exhausted
    /\ \A k \in 1..Len(store) : store[k].translation # None

(***************************************************************************)
(* Properties of upload_to_supabase (SpecUpload)                           *)
(***************************************************************************)
RECURSIVE Flatten(_)
Flatten(lists) ==
    IF lists = <<>> THEN <<>>
    ELSE Flatten(SubSeq(lists, 1, Len(lists) - 1)) \o lists[Len(lists)]

\* the chunk_ids of the rows of the table, in table order
StoredIds == [k \in 1..Len(store) |-> store[k].chunk_id]

\* C19: the batches inserted so far are consecutive slices of the chunk list,
\* in order, each of 1 to 100 chunks and all but the last of exactly 100;
\* the table holds their rows and nothing else; once every batch is in, they
\* make up the whole list; and when the insert of batch k raises, the method
\* raises with batches 1..k-1 in the table and no later batch.
C19_BatchedInsert ==
    LET u == upload
        done == Flatten(u.batches)
    IN  /\ \A b \in 1..Len(u.batches) :
              /\ Len(u.batches[b]) >= 1
              /\ Len(u.batches[b]) <= 100
              /\ b < Len(u.batches) => Len(u.batches[b]) = 100
        /\ Len(done) <= Len(u.chunks)
        /\ done = SubSeq(u.chunks, 1, Len(done))
        /\ StoredIds = [k \in 1..Len(done) |-> done[k].chunk_id]
        /\ (u.pc = "returned" /\ u.verified # None) =>
              /\ done = u.chunks
              /\ u.verified = Some(Len(u.chunks))
              /\ Len(u.batches) = TotalBatches(Len(u.chunks))
        /\ u.failed_batch # None =>
              /\ u.pc = "raised"
              /\ Len(u.batches) = u.failed_batch[1] - 1
              /\ Len(done) = 100 * (u.failed_batch[1] - 1)
              /\ Len(done) < Len(u.chunks)

\* two batches of 100 are in the table, the insert of the third raised
C19_Witness ==
    /\ upload.pc = "raised"
    /\ upload.failed_batch = Some(3)
    /\ Len(upload.batches) = 2
    /\ Len(store) = 200
    /\ Len(upload.chunks) > 200

(***************************************************************************)
(* A run when nothing fails (SpecClean)                                    *)
(***************************************************************************)
\* C25 as stated: when every client call returns a qualifying text and every
\* update succeeds, a run that has gone through its worklist (or found none)
\* leaves no chunk of start_id..end_id with a NULL translation, and
\* verify_range counts zero chunks still NULL.
C25_CleanRunLeavesNoNull ==
    LET r == run[1] IN
    /\ r.pc \in {"nothing_to_do", "done"} =>
          NullIdsFromTo(store, r.start_id, r.end_id) = {}
    /\ r.pc = "done" => (r.verify[1].still_null = 0 /\ r.verify[1].success)

\* What the code does under the same conditions: the chunks left NULL are
\* chunks of more than 4000 characters whose fragment results, joined, stayed
\* at 10 characters or fewer in all five attempts (line 83); verify_range
\* counts exactly those, and zero when there is none.
C25_CleanRunLeavesOnlyShortJoins ==
    LET r == run[1] IN
    /\ r.pc \in {"nothing_to_do", "done"} =>
          NullIdsFromTo(store, r.start_id, r.end_id) \subseteq r.short_join
    /\ \A k \in 1..Len(store) :
          store[k].chunk_id \in r.short_join =>
              /\ TLen(TStrip(store[k].content)) > SplitThreshold
              /\ store[k].translation = None
    /\ r.pc = "done" =>
          /\ r.verify[1].still_null = Cardinality(r.short_join)
          /\ r.verify[1].success = (r.short_join = {})
          /\ r.failed = Cardinality(r.short_join)

\* a run over the whole table that wrote a marker and the joined translation
\* of a chunk of two fragments, and whose verification found nothing NULL
C25_Witness ==
    LET r == run[1] IN
    /\ r.pc = "done"
    /\ r.start_id = 1 /\ r.end_id = None
    /\ r.skipped >= 1 /\ r.translated >= 1 /\ r.failed = 0
    /\ r.verify[1].still_null = 0
    /\ r.verify[1].has_trans = Len(store)
    /\ \E k \in 1..Len(store) :
          /\ TLen(store[k].content) > SplitThreshold
          /\ store[k].translation = Some(JoinSpace(<< <<R("y", 11)>>, <<R("y", 11)>> >>))

(***************************************************************************)
(* Two runs over overlapping ranges (SpecOverlap)                          *)
(***************************************************************************)
\* C26 as stated: at every update a run issues, the row still has a NULL
\* translation, also while a second run over an overlapping range executes.
C26_NeverOverwrites ==
    \A p \in Procs : run[p].overwrites = {}

\* C26, amended: a run only updates chunks of its worklist, which were NULL
\* when it read them; the row of an update holds a translation only when the
\* other run, with the same chunk in its own worklist, wrote it in between.
\* A translation that was in the table before the run started is never
\* overwritten.
C26_OverwritesOnlyConcurrentWrites ==
    \A p \in Procs :
        /\ run[p].written # {} => run[p].written \subseteq Ids(run[p].worklist[1])
        /\ \A id \in run[p].overwrites :
              \E q \in Procs \ {p} :
                  /\ id \in run[q].written
                  /\ id \in Ids(run[q].worklist[1])
                  /\ id \in Ids(run[p].worklist[1])
        /\ \A k \in 1..Len(store) :
              (store[k].translation = Some(EarlierTranslation)
                  /\ run[p].worklist # None)
                  => store[k].chunk_id \notin Ids(run[p].worklist[1])

\* both runs read chunk 1 as NULL, one wrote it, and the other then wrote it
\* again: the last writer's text is the one kept
C26_Witness ==
    /\ run[1].pc = "done" /\ run[2].pc = "done"
    /\ 1 \in run[1].written
    /\ run[2].overwrites = {1}
    /\ \E k \in 1..Len(store) :
          /\ store[k].chunk_id = 2
          /\ store[k].translation = Some(EarlierTranslation)

(***************************************************************************)
(* Progress updates (SpecProgress)                                         *)
(***************************************************************************)
\* C30: a progress update is printed after every 20th chunk of the worklist
\* (i = 20, 40, ...), whether that chunk was translated, failed, empty or
\* too short, and after no other chunk.
C30_ProgressEvery20 ==
    LET r == run[1] IN
    r.pc \in {"loop", "verify", "done"} =>
        r.snapshots = {i \in 1..r.i : i % 20 = 0}

\* the part of C30 that the code keeps: an update is printed after the 20th,
\* 40th, ... chunk when that chunk went to translate_accurately, whether it
\* was translated or failed, and after no other chunk
ProgressAfterTranslatedChunks ==
    LET r == run[1] IN
    r.pc \in {"loop", "verify", "done"} =>
        r.snapshots = {i \in 1..r.i :
                          /\ i % 20 = 0
                          /\ ~IsEmptyContent(r.chunks[i].content)
                          /\ ~IsTooShortContent(r.chunks[i].content)}

(***************************************************************************)
(* Properties of the parser on a document without text, under SpecAsm      *)
(***************************************************************************)

\* C31: an event stream with no non-empty paragraph (an empty document,
\* headings only, or whitespace-only paragraphs) makes the assembler complete
\* normally and return an empty chunk sequence, with no error raised.
C31_EmptyStreamReturnsEmpty ==
    (asm_pc \in {"returned", "raised"} /\ paras = <<>>)
        => (asm_pc = "returned" /\ chunks = <<>>)

\* what the code does instead: the iteration ends by an exception exactly when
\* no non-empty paragraph was read (line 95 divides by len(chunks))
RaisesExactlyWithoutParagraphs ==
    /\ asm_pc = "raised" <=> (asm_pc \in {"returned", "raised"} /\ paras = <<>>)
    /\ asm_pc = "raised" => chunks = <<>>

(***************************************************************************)
(* Properties of the table after several uploads (SpecReupload)            *)
(***************************************************************************)
\* the positions of the rows an update keyed by id reaches
RowsKeyed(table, id) == {k \in DOMAIN table : table[k].chunk_id = id}

\* C32: chunk_id is unique in the store: after any sequence of uploader runs
\* (including running the upload twice on the same document), no two stored
\* rows have the same chunk_id, so an update keyed by chunk_id changes
\* exactly one row.
C32_ChunkIdUnique ==
    \A k \in DOMAIN store : Cardinality(RowsKeyed(store, store[k].chunk_id)) = 1

\* what holds instead: a chunk_id is stored at most once per call of the
\* uploader, and an update changes every row keyed by its chunk_id
OneRowPerUpload ==
    \A k \in DOMAIN store :
        Cardinality(RowsKeyed(store, store[k].chunk_id)) <= upload.earlier_calls + 1

UpdateReachesEveryRowKeyed ==
    [][(Len(store') = Len(store) /\ store' # store) =>
          \E id \in {store[k].chunk_id : k \in DOMAIN store} :
              /\ {k \in DOMAIN store : store'[k] # store[k]}
                     \subseteq RowsKeyed(store, id)
              /\ \A k \in RowsKeyed(store, id) :
                     store'[k].translation = Some(StoredTranslation)]_vars

\* the same document was uploaded twice in full and chunk 1 was updated once
TwoRowsUpdatedAtOnce ==
    /\ upload.pc = "returned"
    /\ upload.earlier_calls = 1
    /\ Len(store) = 2 * Len(upload.chunks)
    /\ Cardinality({k \in RowsKeyed(store, 1) : store[k].translation # None}) = 2
    /\ \E k \in DOMAIN store : IsNull(store[k])

(***************************************************************************)
(* Properties of the split of a long text (SpecSplit)                      *)
(***************************************************************************)
EndsWithMarker(t) == t # <<>> /\ t[Len(t)].c \in SentenceEnders

\* the lengths of the proper prefixes of t that end with a sentence ender
MarkerPrefixLens(t) ==
    UNION {{n \in (TLen(SubSeq(t, 1, j - 1)) + 1)..TLen(SubSeq(t, 1, j)) : n < TLen(t)} :
              j \in {i \in DOMAIN t : t[i].c \in SentenceEnders}}

\* the text without its whitespace
RECURSIVE WithoutSpace(_)
WithoutSpace(t) ==
    IF t = <<>> THEN <<>>
    ELSE IF IsSpace(Head(t).c) THEN WithoutSpace(Tail(t))
    ELSE TCat(<<Head(t)>>, WithoutSpace(Tail(t)))

\* the parts handed to translator.translate in the attempt so far
PartsSent(r) == [k \in DOMAIN r.frag |-> r.frag[k].part]

\* the scan cuts the text after a sentence ender exactly when more than 100
\* characters are accumulated, and nowhere else; the cuts make up the text
CutAtMarkersPastFloor(text) ==
    LET cuts == SplitCuts(text) IN
    /\ CatAll(cuts) = text
    /\ \A k \in 1..Len(cuts) - 1 :
          EndsWithMarker(cuts[k]) /\ TLen(cuts[k]) > FragmentFloor
    /\ \A k \in DOMAIN cuts : \A n \in MarkerPrefixLens(cuts[k]) : n <= FragmentFloor

\* the fragments are the cuts, trimmed, the remainder last; their
\* concatenation is the text up to whitespace
FragmentsAreTrimmedCuts(text, parts) ==
    LET cuts == SplitCuts(text) IN
    /\ parts = [k \in DOMAIN cuts |-> TStrip(cuts[k])]
    /\ WithoutSpace(CatAll(parts)) = WithoutSpace(text)

\* fragments of fewer than 3 characters are not sent
ShortFragmentsNotSent(r) ==
    /\ \A k \in DOMAIN r.frag : TLen(r.frag[k].part) >= MinPartLen
    /\ PartsSent(r) = SelectSeq(SubSeq(r.parts, 1, r.i),
                                LAMBDA part : TLen(part) >= MinPartLen)

\* every fragment but the last ends with a sentence ender and is longer than
\* the floor
FragmentsEndMarkedPastFloor(parts) ==
    \A k \in 1..Len(parts) - 1 :
        EndsWithMarker(parts[k]) /\ TLen(parts[k]) > FragmentFloor

\* C33: SentenceSplitter: a fragment boundary is placed immediately after a
\* sentence-ending marker (danda, double danda or newline) only when the
\* accumulated fragment is already longer than the 100-character floor; a
\* non-empty trailing remainder becomes the last fragment; the fragments in
\* order, concatenated, reconstruct the text up to trimmed whitespace; every
\* fragment except possibly the last ends with a marker and is longer than
\* the floor; fragments shorter than 3 characters are not sent to translation.
C33_SentenceSplitter ==
    LET r == ta[1] IN
    r.pc = "part" =>
        /\ CutAtMarkersPastFloor(r.text)
        /\ FragmentsAreTrimmedCuts(r.text, r.parts)
        /\ FragmentsEndMarkedPastFloor(r.parts)
        /\ ShortFragmentsNotSent(r)

\* the claim without its fourth part holds
SplitterAsCoded ==
    LET r == ta[1] IN
    r.pc = "part" =>
        /\ CutAtMarkersPastFloor(r.text)
        /\ FragmentsAreTrimmedCuts(r.text, r.parts)
        /\ ShortFragmentsNotSent(r)

\* a fragment cut at a newline has lost it, and a fragment cut after blanks
\* is a single danda: both were passed over or sent as they are
TrimmedFragmentsSeen ==
    LET r == ta[1] IN
    /\ r.pc = "part" /\ r.i = Len(r.parts) /\ Len(r.parts) = 3
    /\ ~EndsWithMarker(r.parts[1])
    /\ r.parts[2] = <<R("danda", 1)>>
    /\ Len(r.frag) = 1

(***************************************************************************)
(* Properties of verify_range (SpecVerify)                                 *)
(***************************************************************************)
\* C34: when the store is not modified while verify_range runs, the reported
\* counts satisfy has_translation + still_null = total_in_range; the
\* completion percentage is 100 * has_translation / total (0 when total is 0),
\* which the report prints to the nearest tenth; and the all-translated
\* success message is reported exactly when still_null = 0.
C34_VerificationCounts ==
    \A p \in Procs :
        run[p].verify # None =>
            LET v == run[p].verify[1]
                off == v.percentage * v.total - 1000 * v.has_trans
            IN  /\ v.has_trans + v.still_null = v.total
                /\ v.total = 0 => v.percentage = 0
                /\ v.total > 0 => (2 * off <= v.total /\ -2 * off <= v.total)
                /\ v.success <=> v.still_null = 0

\* a range of three rows, two of them translated: 66.7 percent, no success
C34_Witness ==
    /\ run[1].verify # None
    /\ run[1].verify[1] = [total |-> 3, has_trans |-> 2, still_null |-> 1,
                           percentage |-> 667, success |-> FALSE]

\* a range without rows: 0.0 percent, and the success message
VerifiedEmptyRange ==
    /\ store # <<>>
    /\ run[1].verify # None
    /\ run[1].verify[1] = [total |-> 0, has_trans |-> 0, still_null |-> 0,
                           percentage |-> 0, success |-> TRUE]

\* one row of sixteen translated: 6.25 percent is printed as 6.2
VerifiedSixteenth ==
    /\ run[1].verify # None
    /\ run[1].verify[1].total = 16 /\ run[1].verify[1].has_trans = 1
    /\ run[1].verify[1].percentage = 62

\* 23 rows of 80 translated: 23 / 80 * 100 is the float 28.749999999999996,
\* printed as 28.7 (the exact 28.75 would round to 28.8)
VerifiedBelowTie ==
    /\ run[1].verify # None
    /\ run[1].verify[1].total = 80 /\ run[1].verify[1].has_trans = 23
    /\ run[1].verify[1].percentage = 287

(***************************************************************************)
(* A run next to other writers (SpecRace)                                  *)
(***************************************************************************)
\* both runs found chunk 1 without a translation; this run wrote its
\* translation, and the update of the other run then wrote over it
WrittenOverByOther ==
    /\ 1 \in run[1].written
    /\ Len(store) = 1
    /\ store[1].translation = Some(StoredTranslation)

\* the batch of two chunks was inserted between the two counts of lines
\* 132-150: no chunk in the range, two of them waiting for a translation
CountedAcrossInsert ==
    /\ run[1].pc = "prompt"
    /\ run[1].total_in_range = 0
    /\ run[1].null_count = 2

\* both rows were updated between the second and the third count of
\* verify_range: two chunks, none with and none without a translation, and
\* the message of line 344
VerifiedAcrossUpdates ==
    /\ run[1].verify # None
    /\ run[1].verify[1] = [total |-> 2, has_trans |-> 0, still_null |-> 0,
                           percentage |-> 0, success |-> TRUE]

====
